---------------------------- MODULE Spec2Model ----------------------------
(***************************************************************************)
(* Risk-and-quality scoring pipeline of src/handler.py.                    *)
(*                                                                         *)
(* The Python code computes on binary floating point numbers.  The model   *)
(* computes on exact fixed-point integers:                                 *)
(*    rate_comparison      hundredths of a percent  (20% above  = 2000)    *)
(*    weather_risk_score   points                                          *)
(*    weather_delay_hours  tenths of an hour        (2 hours    = 20)      *)
(*    deadhead_ratio       hundredths               (0.25       = 25)      *)
(*    driver_pay           cents                    (600 USD    = 60000)   *)
(*    trip_miles           tenths of a mile         (550 miles  = 5500)    *)
(*    precipitation_mm     tenths of a millimetre                          *)
(*    wind_speed_kmh       tenths of a km/h                                *)
(* round() is Python's round-half-to-even.  The input sets below hold only *)
(* values on which the exact result and the result of the float            *)
(* computation of the source agree.                                        *)
(***************************************************************************)
EXTENDS Integers, Sequences, FiniteSets, TLC

VARIABLES
    pc,                   \* "start" before the call, "done" after it returned
    \* calculate_load_score: arguments, local list, result
    rate_comparison, weather_risk_score, deadhead_ratio, driver_pay,
    weather_delay_hours, factors, load_score,
    \* estimate_weather_delay: arguments, result
    hazards, trip_miles, delay_info,
    \* check_for_hazards: argument, result
    weather_data, hazard_report,
    \* get_simple_weather_analysis: arguments (with trip_miles), result
    origin_weather_data, destination_weather_data, analysis,
    \* calculate_deadhead_analysis: arguments (with trip_miles), result
    origin_deadhead_miles, destination_deadhead_miles, deadhead_analysis,
    \* get_rate_comparison: arguments, result
    load_rate, market_rate, comparison,
    \* calculate_driver_pay: argument, result
    load, pay_result,
    \* successive calls of calculate_load_score: arguments and result of each
    calls,
    \* process_loads_and_compare_rates: matches with the providers'
    \* responses, loop position, result, calls made
    matches, match_index, processedMatches, provider_calls

vars == <<pc, rate_comparison, weather_risk_score, deadhead_ratio, driver_pay,
          weather_delay_hours, factors, load_score, hazards, trip_miles,
          delay_info, weather_data, hazard_report, origin_weather_data,
          destination_weather_data, analysis, origin_deadhead_miles,
          destination_deadhead_miles, deadhead_analysis, load_rate, market_rate,
          comparison,
          load, pay_result,
          calls,
          matches, match_index, processedMatches, provider_calls>>

scoreVars  == <<rate_comparison, weather_risk_score, deadhead_ratio, driver_pay,
                weather_delay_hours, factors, load_score>>
delayVars  == <<hazards, delay_info>>
hazardVars == <<weather_data, hazard_report>>
weatherVars == <<origin_weather_data, destination_weather_data, analysis>>
deadheadVars == <<origin_deadhead_miles, destination_deadhead_miles,
                  deadhead_analysis>>
rateVars == <<load_rate, market_rate, comparison>>
payVars == <<load, pay_result>>
callVars == <<calls>>
pipelineVars == <<matches, match_index, processedMatches, provider_calls>>

-----------------------------------------------------------------------------
(* Numbers *)

Min(a, b) == IF a < b THEN a ELSE b
Max(a, b) == IF a > b THEN a ELSE b
Abs(a)    == IF a < 0 THEN 0 - a ELSE a

\* Python round(): n/d to the nearest integer, a tie to the even one (d > 0).
RoundHalfEven(n, d) ==
    LET q == n \div d
        r == n % d
    IN  IF 2 * r < d THEN q
        ELSE IF 2 * r > d THEN q + 1
        ELSE IF q % 2 = 0 THEN q ELSE q + 1

\* A value that is either a number or something else ("N/A", "Not Available",
\* None): isinstance(x, (int, float)) is x.numeric.
Num(v)     == [numeric |-> TRUE, v |-> v]
NotANumber == [numeric |-> FALSE, v |-> 0]


-----------------------------------------------------------------------------
(* calculate_load_score *)

\* quality_score is kept in units of 1/ScoreScale point, the common
\* denominator of 25/30 (on hundredths of a percent), 1/6.67, 3/10 and 40/100.
ScoreScale == 120 * 667

BaseScore == 50 * ScoreScale

\* Factor 1 without the cap at +/- 30 %.
RateScoreUncapped(rc) == IF rc.numeric THEN rc.v * 667 ELSE 0

\* Factor 1: max(min(rate_comparison, 30), -30) * (25/30), and its phrase.
RateScore(rc) ==
    IF rc.numeric THEN Max(Min(rc.v, 3000), 0 - 3000) * 667 ELSE 0

RateFactors(rc) ==
    IF rc.numeric /\ rc.v > 0
      THEN << [phrase |-> "% above market rate", value |-> RoundHalfEven(rc.v, 10)] >>
    ELSE IF rc.numeric /\ rc.v < 0
      THEN << [phrase |-> "% below market rate", value |-> Abs(RoundHalfEven(rc.v, 10))] >>
    ELSE << >>

\* The weather penalty with the divisor 5 of the earlier scoring variant.
WeatherImpactDivisorFive(risk) == 0 - (risk * (ScoreScale \div 5))

\* Factor 2: -(weather_risk_score / 6.67), and its phrase.
WeatherImpact(risk) == 0 - (risk * 100 * 120)

WeatherFactors(risk) ==
    IF risk > 50 THEN << [phrase |-> "High weather risk", value |-> 0] >>
    ELSE IF risk > 25 THEN << [phrase |-> "Moderate weather risk", value |-> 0] >>
    ELSE << >>

\* Factor 3: -min(weather_delay_hours * 3, 15) when the delay is > 0.
DelayImpact(delay) ==
    IF delay > 0 THEN 0 - Min(delay * 3 * (ScoreScale \div 10), 15 * ScoreScale) ELSE 0

DelayFactors(delay) ==
    IF delay > 0 /\ delay >= 40
      THEN << [phrase |-> "Severe delay risk (hrs)", value |-> delay] >>
    ELSE IF delay > 0 /\ delay >= 20
      THEN << [phrase |-> "Significant delay risk (hrs)", value |-> delay] >>
    ELSE << >>

\* Factor 4 with the penalty dropped beyond its cap of 20 points.
DeadheadImpactNoneBeyondCap(ratio) ==
    IF ratio > 0 /\ ratio * 2 * (ScoreScale \div 5) <= 20 * ScoreScale
      THEN 0 - (ratio * 2 * (ScoreScale \div 5))
    ELSE 0

\* Factor 4: -min(deadhead_ratio * 40, 20) when the ratio is > 0
\* (40 per unit is 2/5 per hundredth).
DeadheadImpact(ratio) ==
    IF ratio > 0 THEN 0 - Min(ratio * 2 * (ScoreScale \div 5), 20 * ScoreScale) ELSE 0

DeadheadFactors(ratio) ==
    IF ratio > 0 /\ ratio > 40
      THEN << [phrase |-> "Excessive deadhead (%)", value |-> ratio] >>
    ELSE IF ratio > 0 /\ ratio > 25
      THEN << [phrase |-> "High deadhead (%)", value |-> ratio] >>
    ELSE << >>

\* Factor 5: the tier bonus when driver_pay is a number > 0.
PayBonus(pay) ==
    IF pay.numeric /\ pay.v > 0
      THEN IF pay.v > 50000 THEN 15 * ScoreScale
           ELSE IF pay.v > 35000 THEN 10 * ScoreScale
           ELSE IF pay.v > 25000 THEN 5 * ScoreScale
           ELSE 0
      ELSE 0

\* A pay phrase for every tier that earns a bonus.
PayFactorsEveryTier(pay) ==
    IF pay.numeric /\ pay.v > 0 /\ pay.v > 50000
      THEN << [phrase |-> "Excellent pay", value |-> 0] >>
    ELSE IF pay.numeric /\ pay.v > 0 /\ pay.v > 25000
      THEN << [phrase |-> "Good pay", value |-> 0] >>
    ELSE << >>

PayFactors(pay) ==
    IF pay.numeric /\ pay.v > 0 /\ pay.v > 50000
      THEN << [phrase |-> "Excellent pay", value |-> 0] >>
    ELSE IF pay.numeric /\ pay.v > 0 /\ pay.v > 35000
      THEN << [phrase |-> "Good pay", value |-> 0] >>
    ELSE << >>

\* quality_score after the five factors.
QualityScore(rc, risk, ratio, pay, delay) ==
    BaseScore + RateScore(rc) + WeatherImpact(risk) + DelayImpact(delay)
              + DeadheadImpact(ratio) + PayBonus(pay)

\* The rounding without the clamp to [0, 100].
FinalScoreUnclamped(q) == RoundHalfEven(q, ScoreScale)

\* final_score = round(max(0, min(100, quality_score)))
FinalScore(q) == RoundHalfEven(Max(0, Min(100 * ScoreScale, q)), ScoreScale)

\* The categories with strict thresholds.
CategoryStrict(final_score) ==
    IF final_score > 80 THEN "Excellent"
    ELSE IF final_score > 65 THEN "Good"
    ELSE IF final_score > 45 THEN "Average"
    ELSE IF final_score > 25 THEN "Poor"
    ELSE "Very Poor"

Category(final_score) ==
    IF final_score >= 80 THEN "Excellent"
    ELSE IF final_score >= 65 THEN "Good"
    ELSE IF final_score >= 45 THEN "Average"
    ELSE IF final_score >= 25 THEN "Poor"
    ELSE "Very Poor"

\* factors, in the order the code appends them.
AllFactors(rc, risk, ratio, pay, delay) ==
    RateFactors(rc) \o WeatherFactors(risk) \o DelayFactors(delay)
                    \o DeadheadFactors(ratio) \o PayFactors(pay)

\* The factor list returned whole.
TopThreeUntruncated(fs) == fs

\* factors[:3]
TopThree(fs) == SubSeq(fs, 1, Min(3, Len(fs)))

NoScore == [score |-> 0, category |-> "", key_factors |-> << >>]

\* The call of calculate_load_score on the arguments held in the state.
CalculateLoadScore ==
    /\ pc = "start"
    /\ LET fs == AllFactors(rate_comparison, weather_risk_score, deadhead_ratio,
                            driver_pay, weather_delay_hours)
           fin == FinalScore(QualityScore(rate_comparison, weather_risk_score,
                                          deadhead_ratio, driver_pay,
                                          weather_delay_hours))
       IN  /\ factors' = fs
           /\ load_score' = [score |-> fin, category |-> Category(fin),
                             key_factors |-> TopThree(fs)]
    /\ pc' = "done"
    /\ UNCHANGED <<rate_comparison, weather_risk_score, deadhead_ratio, driver_pay,
                   weather_delay_hours, delayVars, hazardVars, weatherVars,
                   deadheadVars, rateVars, trip_miles,
                   payVars,
                   callVars,
                   pipelineVars>>

\* The number of calls in a series.
MaxCalls == 3

\* Arguments of the calls of a series: with and without each key factor.
ScoreArguments ==
    [rate_comparison : {NotANumber, Num(2000)},
     weather_risk_score : {0, 51},
     deadhead_ratio : {41},
     driver_pay : {Num(0), Num(50001)},
     weather_delay_hours : {0, 40}]

\* The local list with the previous call's factors still in it.
FactorsKept == factors

\* factors = []: every call starts with a list of its own.
FreshFactors == << >>

\* One of a series of calls of calculate_load_score in one process, on any
\* arguments; the arguments and the returned dict are recorded in calls.
InvokeLoadScore ==
    /\ pc = "start"
    /\ Len(calls) < MaxCalls
    /\ \E arguments \in ScoreArguments :
         LET fs == FreshFactors
                   \o AllFactors(arguments.rate_comparison, arguments.weather_risk_score,
                                 arguments.deadhead_ratio, arguments.driver_pay,
                                 arguments.weather_delay_hours)
             fin == FinalScore(QualityScore(arguments.rate_comparison,
                                            arguments.weather_risk_score,
                                            arguments.deadhead_ratio,
                                            arguments.driver_pay,
                                            arguments.weather_delay_hours))
             returned == [score |-> fin, category |-> Category(fin),
                          key_factors |-> TopThree(fs)]
         IN  /\ rate_comparison' = arguments.rate_comparison
             /\ weather_risk_score' = arguments.weather_risk_score
             /\ deadhead_ratio' = arguments.deadhead_ratio
             /\ driver_pay' = arguments.driver_pay
             /\ weather_delay_hours' = arguments.weather_delay_hours
             /\ factors' = fs
             /\ load_score' = returned
             /\ calls' = Append(calls, [arguments |-> arguments, returned |-> returned])
    /\ UNCHANGED <<pc, trip_miles, delayVars, hazardVars, weatherVars, deadheadVars,
                   rateVars, payVars,
                   pipelineVars>>

-----------------------------------------------------------------------------
(* check_for_hazards *)

\* An optional key of a dict is the set of its values: {} when the key is absent.
Absent     == {}
Present(v) == {v}

Event(type, hour, severity, precipitation, wind_speed) ==
    [type |-> type, time |-> hour.time, severity |-> severity,
     precipitation |-> precipitation, wind_speed |-> wind_speed]

\* The chain with severity "high" for code 75 alone.
CodeEventsHighFor75Only(hour) ==
    LET weather_code == hour.weather_code
    IN  IF weather_code \in {71, 73, 75, 77, 85, 86}
          THEN << Event("Snow", hour,
                        IF weather_code \in {75} THEN "high" ELSE "medium",
                        Absent, Absent) >>
        ELSE IF weather_code \in {95, 96, 99}
          THEN << Event("Thunderstorm", hour, "high", Absent, Absent) >>
        ELSE IF weather_code \in {66, 67}
          THEN << Event("Freezing Rain", hour, "high", Absent, Absent) >>
        ELSE IF weather_code \in {45, 48}
          THEN << Event("Fog", hour, "medium", Absent, Absent) >>
        ELSE << >>

\* The if/elif chain on the weather code: at most one event.
CodeEvents(hour) ==
    LET weather_code == hour.weather_code
    IN  IF weather_code \in {71, 73, 75, 77, 85, 86}
          THEN << Event("Snow", hour,
                        IF weather_code \in {75, 86} THEN "high" ELSE "medium",
                        Absent, Absent) >>
        ELSE IF weather_code \in {95, 96, 99}
          THEN << Event("Thunderstorm", hour, "high", Absent, Absent) >>
        ELSE IF weather_code \in {66, 67}
          THEN << Event("Freezing Rain", hour, "high", Absent, Absent) >>
        ELSE IF weather_code \in {45, 48}
          THEN << Event("Fog", hour, "medium", Absent, Absent) >>
        ELSE << >>

\* The rain rule with >= in place of >.
RainEventsInclusive(hour) ==
    IF hour.precipitation_mm >= 40
      THEN << Event("Heavy Rain", hour, "medium", Present(hour.precipitation_mm), Absent) >>
      ELSE << >>

\* precipitation_mm > 4
RainEvents(hour) ==
    IF hour.precipitation_mm > 40
      THEN << Event("Heavy Rain", hour, "medium", Present(hour.precipitation_mm), Absent) >>
      ELSE << >>

\* wind_speed_kmh > 30, high from 50
WindEvents(hour) ==
    IF hour.wind_speed_kmh > 300
      THEN << Event("High Winds", hour,
                    IF hour.wind_speed_kmh < 500 THEN "medium" ELSE "high",
                    Absent, Present(hour.wind_speed_kmh)) >>
      ELSE << >>

\* One iteration with the wind rule ahead of the rain rule.
HourHazardsWindFirst(hour) == CodeEvents(hour) \o WindEvents(hour) \o RainEvents(hour)

\* One iteration of the loop over hourly_forecast.
HourHazards(hour) == CodeEvents(hour) \o RainEvents(hour) \o WindEvents(hour)

RECURSIVE HazardsOf(_)
HazardsOf(hourly) ==
    IF hourly = << >> THEN << >>
    ELSE HourHazards(Head(hourly)) \o HazardsOf(Tail(hourly))

HasSevere(hs) == \E i \in 1..Len(hs) : hs[i].severity = "high"

NoReport == [error |-> FALSE, hazards |-> << >>, hazard_count |-> 0,
             has_severe_hazards |-> FALSE]

CheckForHazardsResult(wd) ==
    IF wd.error
      THEN [error |-> TRUE, hazards |-> << >>, hazard_count |-> 0,
            has_severe_hazards |-> FALSE]
      ELSE LET hs == HazardsOf(wd.hourly_forecast)
           IN  [error |-> FALSE, hazards |-> hs, hazard_count |-> Len(hs),
                has_severe_hazards |-> HasSevere(hs)]

\* The call of check_for_hazards on the weather data held in the state.
CheckForHazards ==
    /\ pc = "start"
    /\ hazard_report' = CheckForHazardsResult(weather_data)
    /\ pc' = "done"
    /\ UNCHANGED <<weather_data, scoreVars, delayVars, weatherVars, deadheadVars,
                   rateVars, trip_miles,
                   payVars,
                   callVars,
                   pipelineVars>>

-----------------------------------------------------------------------------
(* estimate_weather_delay *)

\* weather_impacts: (percent of normal speed, percent of route affected).
weather_impacts ==
    ("Snow"          :> ("high" :> <<40, 60>> @@ "medium" :> <<60, 50>>)) @@
    ("Freezing Rain" :> ("high" :> <<35, 50>> @@ "medium" :> <<50, 40>>)) @@
    ("Thunderstorm"  :> ("high" :> <<50, 30>> @@ "medium" :> <<70, 20>>)) @@
    ("Fog"           :> ("high" :> <<40, 40>> @@ "medium" :> <<60, 30>>)) @@
    ("Heavy Rain"    :> ("high" :> <<60, 40>> @@ "medium" :> <<70, 30>>)) @@
    ("High Winds"    :> ("high" :> <<70, 60>> @@ "medium" :> <<80, 40>>))

normal_speed_mph == 55

\* Times are kept in units of 1/DelayUnitsPerHour hour, so that every time
\* the code computes from the table is a whole number of units.
DelayUnitsPerHour == normal_speed_mph * 2100

\* hazard.get("severity", "medium")
Missing == "(missing)"
SeverityOf(hazard) == IF hazard.severity = Missing THEN "medium" ELSE hazard.severity

Recognized(hazard) ==
    /\ hazard.type \in DOMAIN weather_impacts
    /\ SeverityOf(hazard) \in DOMAIN weather_impacts[hazard.type]

\* affected_miles = trip_miles * route_affected, in thousandths of a mile
\* (tenths of a mile times percent).
AffectedMiles(hazard, trip) ==
    trip * weather_impacts[hazard.type][SeverityOf(hazard)][2]

\* normal_segment_time = affected_miles / normal_speed_mph
\* (DelayUnitsPerHour / (1000 * 55) = 21/10 units per thousandth of a mile)
NormalSegmentTime(hazard, trip) == (AffectedMiles(hazard, trip) * 21) \div 10

\* actual_segment_time = affected_miles / (normal_speed_mph * speed_factor)
ActualSegmentTime(hazard, trip) ==
    (AffectedMiles(hazard, trip) * 210)
        \div weather_impacts[hazard.type][SeverityOf(hazard)][1]

\* segment_delay = actual_segment_time - normal_segment_time
SegmentDelay(hazard, trip) ==
    ActualSegmentTime(hazard, trip) - NormalSegmentTime(hazard, trip)

\* The noise floor with >= in place of >.
SignificantInclusive(segment_delay) == 4 * segment_delay >= DelayUnitsPerHour

\* if segment_delay > 0.25
Significant(segment_delay) == 4 * segment_delay > DelayUnitsPerHour

\* The hazards that add to total_delay_hours and delay_factors.
Counted(hazard, trip) == Recognized(hazard) /\ Significant(SegmentDelay(hazard, trip))

RECURSIVE TotalDelay(_, _)
TotalDelay(hs, trip) ==
    IF hs = << >> THEN 0
    ELSE (IF Counted(Head(hs), trip) THEN SegmentDelay(Head(hs), trip) ELSE 0)
         + TotalDelay(Tail(hs), trip)

RECURSIVE DelayFactorsOf(_, _)
DelayFactorsOf(hs, trip) ==
    IF hs = << >> THEN << >>
    ELSE (IF Counted(Head(hs), trip)
            THEN << [type |-> Head(hs).type, severity |-> SeverityOf(Head(hs)),
                     delay_hours |-> RoundHalfEven(SegmentDelay(Head(hs), trip) * 10,
                                                   DelayUnitsPerHour)] >>
            ELSE << >>)
         \o DelayFactorsOf(Tail(hs), trip)

\* The impact levels with <= in place of <.
ImpactLevelInclusive(total_delay_hours) ==
    IF 2 * total_delay_hours <= DelayUnitsPerHour THEN "Minimal"
    ELSE IF total_delay_hours <= 2 * DelayUnitsPerHour THEN "Moderate"
    ELSE IF total_delay_hours <= 4 * DelayUnitsPerHour THEN "Significant"
    ELSE "Severe"

\* The impact levels with "None" for a total of 0.
ImpactLevelNoneAtZero(total_delay_hours) ==
    IF total_delay_hours = 0 THEN "None"
    ELSE IF 2 * total_delay_hours < DelayUnitsPerHour THEN "Minimal"
    ELSE IF total_delay_hours < 2 * DelayUnitsPerHour THEN "Moderate"
    ELSE IF total_delay_hours < 4 * DelayUnitsPerHour THEN "Significant"
    ELSE "Severe"

\* The impact levels with Severe from five hours on.
ImpactLevelSevereFromFive(total_delay_hours) ==
    IF 2 * total_delay_hours < DelayUnitsPerHour THEN "Minimal"
    ELSE IF total_delay_hours < 2 * DelayUnitsPerHour THEN "Moderate"
    ELSE IF total_delay_hours < 5 * DelayUnitsPerHour THEN "Significant"
    ELSE "Severe"

ImpactLevel(total_delay_hours) ==
    IF 2 * total_delay_hours < DelayUnitsPerHour THEN "Minimal"
    ELSE IF total_delay_hours < 2 * DelayUnitsPerHour THEN "Moderate"
    ELSE IF total_delay_hours < 4 * DelayUnitsPerHour THEN "Significant"
    ELSE "Severe"

\* if not hazards or trip_miles <= 0
NoDelayInput(hs, trip) == hs = << >> \/ trip <= 0

\* The early return with the impact level of a small delay.
NoDelayMinimal == [estimated_delay_hours |-> 0, delay_percentage |-> Absent,
                   delay_factors |-> << >>, impact_level |-> "Minimal"]

\* The dict returned by the early return.
NoDelay == [estimated_delay_hours |-> 0, delay_percentage |-> Absent,
            delay_factors |-> << >>, impact_level |-> "None"]

\* estimated_delay_hours in tenths of an hour, delay_percentage in tenths of a
\* percent of normal_trip_time = trip_miles / 55.
EstimateWeatherDelayResult(hs, trip) ==
    IF NoDelayInput(hs, trip) THEN NoDelay
    ELSE LET total == TotalDelay(hs, trip)
         IN  [estimated_delay_hours |-> RoundHalfEven(total * 10, DelayUnitsPerHour),
              delay_percentage |-> Present(RoundHalfEven(total * 100, trip * 21)),
              delay_factors |-> DelayFactorsOf(hs, trip),
              impact_level |-> ImpactLevel(total)]

\* The call of estimate_weather_delay on the arguments held in the state.
EstimateWeatherDelay ==
    /\ pc = "start"
    /\ delay_info' = EstimateWeatherDelayResult(hazards, trip_miles)
    /\ pc' = "done"
    /\ UNCHANGED <<hazards, trip_miles, scoreVars, hazardVars, weatherVars,
                   deadheadVars, rateVars,
                   payVars,
                   callVars,
                   pipelineVars>>

-----------------------------------------------------------------------------
(* get_simple_weather_analysis *)

\* A weather data argument.  present is its truth value (None and {} are
\* false), error is '"error" in data', api_status is data.get("api_status"),
\* and daily_forecast is << >> both for an empty list and for a missing key.
NoData ==
    [present |-> FALSE, error |-> FALSE, api_status |-> Missing,
     hourly_forecast |-> << >>, daily_forecast |-> << >>]

\* "error" not in data and data.get("api_status") == "success"
Usable(wd) == ~wd.error /\ wd.api_status = "success"

\* origin_hazards / dest_hazards: None (Absent) unless the side is usable.
SideReport(wd) ==
    IF Usable(wd) THEN Present(CheckForHazardsResult(wd)) ELSE Absent

\* The hazards of a side taken whatever its error key and api_status.
SideHazardsWhateverStatus(wd) == HazardsOf(wd.hourly_forecast)

\* The hazards one side appends to all_hazards.
SideHazards(wd) ==
    IF SideReport(wd) = Absent THEN << >>
    ELSE LET report == CHOOSE r \in SideReport(wd) : TRUE
         IN  IF report.error THEN << >> ELSE report.hazards

\* f"{side}: {hazard['type']} ({hazard['severity']} risk)"
HazardLines(side, hs) ==
    [i \in 1..Len(hs) |-> [side |-> side, type |-> hs[i].type,
                           severity |-> hs[i].severity]]

\* first_day.get("weather_description", "Unknown") of a non-empty forecast.
FirstDayWeather(wd) ==
    IF wd.present /\ wd.daily_forecast # << >>
      THEN IF wd.daily_forecast[1].weather_description = Missing
             THEN "Unknown" ELSE wd.daily_forecast[1].weather_description
      ELSE "Unknown"

CountSeverity(hs, severity) ==
    Cardinality({i \in 1..Len(hs) : hs[i].severity = severity})

\* What one side adds to risk_score: per high and per medium hazard.
SideRisk(wd, per_high, per_medium) ==
    IF SideReport(wd) = Absent THEN 0
    ELSE LET report == CHOOSE r \in SideReport(wd) : TRUE
         IN  CountSeverity(report.hazards, "high") * per_high
             + CountSeverity(report.hazards, "medium") * per_medium

\* The risk score with the origin's weights on both sides.
RiskScoreSameWeights(origin, destination) ==
    Min(SideRisk(origin, 20, 10) + SideRisk(destination, 20, 10), 100)

\* risk_score = min(risk_score, 100)
RiskScore(origin, destination) ==
    Min(SideRisk(origin, 20, 10) + SideRisk(destination, 15, 5), 100)

\* The risk levels with <= in place of <.
RiskLevelInclusive(risk_score) ==
    IF risk_score = 0 THEN "None"
    ELSE IF risk_score <= 25 THEN "Low"
    ELSE IF risk_score <= 50 THEN "Medium"
    ELSE IF risk_score <= 75 THEN "High"
    ELSE "Severe"

RiskLevel(risk_score) ==
    IF risk_score = 0 THEN "None"
    ELSE IF risk_score < 25 THEN "Low"
    ELSE IF risk_score < 50 THEN "Medium"
    ELSE IF risk_score < 75 THEN "High"
    ELSE "Severe"

\* The six type names in the order sorted() gives them.
SortedTypes ==
    <<"Fog", "Freezing Rain", "Heavy Rain", "High Winds", "Snow", "Thunderstorm">>

\* ", ".join(sorted(list(hazard_types))): the types named in the hazard lines.
HazardList(lines) ==
    SelectSeq(SortedTypes, LAMBDA t : \E i \in 1..Len(lines) : lines[i].type = t)

\* impact.lower()
Lower ==
    ("None" :> "none") @@ ("Minimal" :> "minimal") @@ ("Moderate" :> "moderate")
    @@ ("Significant" :> "significant") @@ ("Severe" :> "severe")

\* A summary is its f-string and the values of its fields ("" or 0 for a
\* field the f-string does not have); delay_hours is in tenths of an hour.
Sentence(text, hazard_list, impact, delay_hours, origin_weather, destination_weather) ==
    [text |-> text, hazard_list |-> hazard_list, impact |-> impact,
     delay_hours |-> delay_hours, origin_weather |-> origin_weather,
     destination_weather |-> destination_weather]

\* The summary with the delay clause whenever there are hazards.
SummaryAlwaysExpect(lines, delay, origin_weather, destination_weather) ==
    IF lines # << >>
      THEN Sentence("Weather conditions include {hazard_list}. Expect {impact.lower()} delays of approximately {delay_hours} hours. Origin: {origin_weather}, Destination: {destination_weather}",
                    HazardList(lines), Lower[delay.impact_level],
                    delay.estimated_delay_hours,
                    origin_weather, destination_weather)
      ELSE Sentence("No significant weather hazards. Origin: {origin_weather}, Destination: {destination_weather}",
                    << >>, "", 0, origin_weather, destination_weather)

\* The summary get_simple_weather_analysis writes outside the fallback.
Summary(lines, delay, origin_weather, destination_weather) ==
    IF lines # << >>
      THEN IF delay.estimated_delay_hours > 0
             THEN Sentence("Weather conditions include {hazard_list}. Expect {impact.lower()} delays of approximately {delay_hours} hours. Origin: {origin_weather}, Destination: {destination_weather}",
                           HazardList(lines), Lower[delay.impact_level],
                           delay.estimated_delay_hours,
                           origin_weather, destination_weather)
             ELSE Sentence("Weather conditions include {hazard_list}. No significant delays expected. Origin: {origin_weather}, Destination: {destination_weather}",
                           HazardList(lines), "", 0,
                           origin_weather, destination_weather)
      ELSE Sentence("No significant weather hazards. Origin: {origin_weather}, Destination: {destination_weather}",
                    << >>, "", 0, origin_weather, destination_weather)

\* The analysis dict as initialized: the state returned when there is no data.
NoAnalysis ==
    [summary |-> Sentence("No weather data available", << >>, "", 0, "", ""),
     risk_level |-> "Unknown",
     risk_score |-> 0,
     hazards |-> << >>,
     estimated_delay |-> NoDelay]

\* The early return guard taking an unusable side for an absent one.
NoWeatherDataOrUnusable(origin, destination) ==
    \/ ~origin.present \/ ~Usable(origin)
    \/ ~destination.present \/ ~Usable(destination)

\* if not origin_weather_data or not destination_weather_data
NoWeatherData(origin, destination) == ~origin.present \/ ~destination.present

GetSimpleWeatherAnalysisResult(origin, destination, trip) ==
    IF NoWeatherData(origin, destination) THEN NoAnalysis
    ELSE LET lines == HazardLines("Origin", SideHazards(origin))
                      \o HazardLines("Destination", SideHazards(destination))
             all_hazards == SideHazards(origin) \o SideHazards(destination)
             risk_score == RiskScore(origin, destination)
             delay == EstimateWeatherDelayResult(all_hazards, trip)
         IN  [summary |-> Summary(lines, delay, FirstDayWeather(origin),
                                  FirstDayWeather(destination)),
              risk_level |-> RiskLevel(risk_score),
              risk_score |-> risk_score,
              hazards |-> lines,
              estimated_delay |-> delay]

\* The call of get_simple_weather_analysis on the arguments held in the state.
GetSimpleWeatherAnalysis ==
    /\ pc = "start"
    /\ analysis' = GetSimpleWeatherAnalysisResult(origin_weather_data,
                                                  destination_weather_data, trip_miles)
    /\ pc' = "done"
    /\ UNCHANGED <<origin_weather_data, destination_weather_data, trip_miles,
                   scoreVars, delayVars, hazardVars, deadheadVars, rateVars,
                   payVars,
                   callVars,
                   pipelineVars>>

-----------------------------------------------------------------------------
(* calculate_deadhead_analysis *)

\* Miles are in tenths of a mile, ratios in hundredths, percentages in tenths
\* of a percent.  A result is a record with the keys of the dict returned.

\* The guard with < in place of <=.
InvalidTripNegativeOnly(trip) == trip < 0

\* if trip_miles <= 0
InvalidTrip(trip) == trip <= 0

InvalidAnalysis ==
    [status |-> "invalid", message |-> "Trip miles must be greater than zero"]

\* round(miles / trip_miles, 2) if trip_miles > 0 else 0
Ratio(miles, trip) == IF trip > 0 THEN RoundHalfEven(miles * 100, trip) ELSE 0

\* The distance with the loaded miles alone.
TotalDistanceLoadedOnly(trip, total_deadhead) == trip

\* total_distance = trip_miles + total_deadhead
TotalDistance(trip, total_deadhead) == trip + total_deadhead

\* round((miles / total_distance) * 100, 1) if total_distance > 0 else 0
MilesPercentage(miles, total_distance) ==
    IF total_distance > 0 THEN RoundHalfEven(miles * 1000, total_distance) ELSE 0

\* The chain with < in place of <=.
DeadheadSeverityStrict(total_deadhead_ratio) ==
    IF total_deadhead_ratio < 10 THEN <<"Excellent", "Very Low">>
    ELSE IF total_deadhead_ratio < 20 THEN <<"Good", "Low">>
    ELSE IF total_deadhead_ratio < 30 THEN <<"Average", "Moderate">>
    ELSE IF total_deadhead_ratio < 50 THEN <<"Poor", "High">>
    ELSE <<"Very Poor", "Severe">>

\* The if/elif chain on total_deadhead_ratio: <<severity, impact>>.
DeadheadSeverity(total_deadhead_ratio) ==
    IF total_deadhead_ratio <= 10 THEN <<"Excellent", "Very Low">>
    ELSE IF total_deadhead_ratio <= 20 THEN <<"Good", "Low">>
    ELSE IF total_deadhead_ratio <= 30 THEN <<"Average", "Moderate">>
    ELSE IF total_deadhead_ratio <= 50 THEN <<"Poor", "High">>
    ELSE <<"Very Poor", "Severe">>

Focus(origin, destination) ==
    IF origin > destination THEN "Pickup deadhead is your main concern."
    ELSE IF destination > origin THEN "Consider your next load after delivery."
    ELSE ""

\* severity.lower()
SeverityLower ==
    ("Excellent" :> "excellent") @@ ("Good" :> "good") @@ ("Average" :> "average")
    @@ ("Poor" :> "poor") @@ ("Very Poor" :> "very poor")

\* f"Deadhead is {severity.lower()} at {round(total_deadhead_ratio * 100)}% of
\* loaded miles. " + focus: the f-string and the values of its fields.
DeadheadSummary(severity, total_deadhead_ratio, focus) ==
    [text |-> "Deadhead is {severity.lower()} at {round(total_deadhead_ratio * 100)}% of loaded miles. ",
     severity |-> SeverityLower[severity],
     percent |-> total_deadhead_ratio,
     focus |-> focus]

CalculateDeadheadAnalysisResult(origin, destination, trip) ==
    IF InvalidTrip(trip) THEN InvalidAnalysis
    ELSE LET total_deadhead == origin + destination
             total_deadhead_ratio == Ratio(total_deadhead, trip)
             total_distance == TotalDistance(trip, total_deadhead)
             row == DeadheadSeverity(total_deadhead_ratio)
         IN  [status |-> "success",
              origin_deadhead_miles |-> origin,
              destination_deadhead_miles |-> destination,
              total_deadhead_miles |-> total_deadhead,
              origin_deadhead_ratio |-> Ratio(origin, trip),
              destination_deadhead_ratio |-> Ratio(destination, trip),
              total_deadhead_ratio |-> total_deadhead_ratio,
              paid_miles_percentage |-> MilesPercentage(trip, total_distance),
              unpaid_miles_percentage |-> MilesPercentage(total_deadhead, total_distance),
              severity |-> row[1],
              impact |-> row[2],
              summary |-> DeadheadSummary(row[1], total_deadhead_ratio,
                                          Focus(origin, destination))]

\* The call of calculate_deadhead_analysis on the arguments held in the state.
CalculateDeadheadAnalysis ==
    /\ pc = "start"
    /\ deadhead_analysis' = CalculateDeadheadAnalysisResult(origin_deadhead_miles,
                                destination_deadhead_miles, trip_miles)
    /\ pc' = "done"
    /\ UNCHANGED <<origin_deadhead_miles, destination_deadhead_miles, trip_miles,
                   scoreVars, delayVars, hazardVars, weatherVars, rateVars,
                   payVars,
                   callVars,
                   pipelineVars>>

-----------------------------------------------------------------------------
(* get_rate_comparison *)

\* Rates are in ten-thousandths of a dollar per mile, None is NotANumber;
\* difference_percentage is in hundredths of a percent.  A string in the place
\* of a number is Text(s).
Text(s) == [numeric |-> FALSE, text |-> s]

\* rate is None or rate <= 0
Unavailable(rate) == ~rate.numeric \/ rate.v <= 0

\* The echo that gives 'Not Available' for both rates of the sentinel state.
EchoNotAvailable(rate) == Text("Not Available")

\* "Not Available" if rate is None or rate <= 0 else rate
Echo(rate) == IF Unavailable(rate) THEN Text("Not Available") ELSE rate

\* A narrative is its f-string and the value of its field (0 without a field).
Narrative(text, value) == [text |-> text, value |-> value]

\* round(((load_rate - market_rate) / market_rate) * 100, 2), for market_rate > 0
DifferencePercentage(broker, market) ==
    RoundHalfEven((broker - market) * 10000, market)

\* The narrative by the sign of the rounded difference.
ComparisonBySignOfReported(broker, market) ==
    IF DifferencePercentage(broker, market) > 0
      THEN Narrative("{abs(round(difference_percentage, 2))}% above market rate",
                     Abs(DifferencePercentage(broker, market)))
    ELSE IF DifferencePercentage(broker, market) < 0
      THEN Narrative("{abs(round(difference_percentage, 2))}% below market rate",
                     Abs(DifferencePercentage(broker, market)))
    ELSE Narrative("At market rate", 0)

\* The narrative goes by the sign of the difference before it is rounded.
Comparison(broker, market) ==
    IF broker - market > 0
      THEN Narrative("{abs(round(difference_percentage, 2))}% above market rate",
                     Abs(DifferencePercentage(broker, market)))
    ELSE IF broker - market < 0
      THEN Narrative("{abs(round(difference_percentage, 2))}% below market rate",
                     Abs(DifferencePercentage(broker, market)))
    ELSE Narrative("At market rate", 0)

GetRateComparisonResult(broker, market) ==
    IF Unavailable(broker) \/ Unavailable(market)
      THEN [broker_rate_per_mile |-> Echo(broker),
            market_rate_per_mile |-> Echo(market),
            difference_percentage |-> Text("N/A"),
            comparison |-> Narrative("Rate comparison not possible", 0)]
      ELSE [broker_rate_per_mile |-> broker,
            market_rate_per_mile |-> market,
            difference_percentage |->
                Num(DifferencePercentage(broker.v, market.v)),
            comparison |-> Comparison(broker.v, market.v)]

\* The call of get_rate_comparison on the arguments held in the state.
GetRateComparison ==
    /\ pc = "start"
    /\ comparison' = GetRateComparisonResult(load_rate, market_rate)
    /\ pc' = "done"
    /\ UNCHANGED <<load_rate, market_rate, trip_miles, scoreVars, delayVars,
                   hazardVars, weatherVars, deadheadVars,
                   payVars,
                   callVars,
                   pipelineVars>>

-----------------------------------------------------------------------------
(* get_total_load_amount, get_broker_rate_per_mile, calculate_driver_pay *)

\* The fields of a load these functions read: estimatedRatePerMile in
\* ten-thousandths of a dollar, the rateUsd of privateNetworkRateInfo and of
\* loadBoardRateInfo in cents, tripLength.miles in tenths of a mile.  A missing
\* key reads as its default 0.
Load(estimated, private, board, miles) ==
    [estimatedRatePerMile |-> estimated, private_rate |-> private,
     load_board_rate |-> board, trip_length_miles |-> miles]

\* get_total_load_amount: the private rate, else the load board rate, else None.
GetTotalLoadAmount(ld) ==
    IF ld.private_rate > 0 THEN Num(ld.private_rate)
    ELSE IF ld.load_board_rate > 0 THEN Num(ld.load_board_rate)
    ELSE NotANumber

\* rateUsd / trip_length_miles: cents per tenth of a mile are 1000
\* ten-thousandths of a dollar per mile.
PerMile(rate_usd, miles) == (rate_usd * 1000) \div miles

\* get_broker_rate_per_mile
GetBrokerRatePerMile(ld) ==
    IF ld.estimatedRatePerMile > 0 THEN Num(ld.estimatedRatePerMile)
    ELSE IF ld.trip_length_miles <= 0 THEN NotANumber
    ELSE IF ld.private_rate > 0 THEN Num(PerMile(ld.private_rate, ld.trip_length_miles))
    ELSE IF ld.load_board_rate > 0
      THEN Num(PerMile(ld.load_board_rate, ld.trip_length_miles))
    ELSE NotANumber

\* The source of the pay with the rate per mile tried first.
PaySourceRateFirst(total_load_amount, rate_per_mile, miles) ==
    IF rate_per_mile.numeric /\ rate_per_mile.v > 0 /\ miles > 0
      THEN "calculated_from_rate_per_mile"
    ELSE IF total_load_amount.numeric /\ total_load_amount.v > 0
      THEN "percentage_of_total"
    ELSE "insufficient_data"

\* The branch calculate_driver_pay takes.
PaySource(total_load_amount, rate_per_mile, miles) ==
    IF total_load_amount.numeric /\ total_load_amount.v > 0
      THEN "percentage_of_total"
    ELSE IF rate_per_mile.numeric /\ rate_per_mile.v > 0 /\ miles > 0
      THEN "calculated_from_rate_per_mile"
    ELSE "insufficient_data"

\* round(driver_pay, 2) in cents.
CalculateDriverPayResult(ld) ==
    LET total_load_amount == GetTotalLoadAmount(ld)
        rate_per_mile == GetBrokerRatePerMile(ld)
        source == PaySource(total_load_amount, rate_per_mile, ld.trip_length_miles)
    IN  IF source = "percentage_of_total"
          THEN [amount |-> Num(RoundHalfEven(total_load_amount.v, 4)),
                calculation_method |-> source]
        ELSE IF source = "calculated_from_rate_per_mile"
          THEN [amount |-> Num(RoundHalfEven(rate_per_mile.v * ld.trip_length_miles,
                                             4000)),
                calculation_method |-> source]
        ELSE [amount |-> Text("Not Available"), calculation_method |-> source]

\* The call of calculate_driver_pay on the load held in the state.
CalculateDriverPay ==
    /\ pc = "start"
    /\ pay_result' = CalculateDriverPayResult(load)
    /\ pc' = "done"
    /\ UNCHANGED <<load, trip_miles, scoreVars, delayVars, hazardVars, weatherVars,
                   deadheadVars, rateVars,
                   callVars,
                   pipelineVars>>

-----------------------------------------------------------------------------
(* map_equipment_code_to_rateview, process_loads_and_compare_rates *)

van_codes ==
    {"V", "VA", "VB", "VC", "V2", "VZ", "VH", "VI", "VN", "VG", "VL", "VV", "VM", "VT",
     "VF", "VR", "VP", "VW"}
reefer_codes == {"R", "RA", "R2", "RZ", "RN", "RL", "RM", "RG", "RV", "RP"}

\* map_equipment_code_to_rateview: flatbed codes and unknown codes alike give
\* "FLATBED".
MapEquipmentCodeToRateview(equipment_code) ==
    IF equipment_code \in van_codes THEN "VAN"
    ELSE IF equipment_code \in reefer_codes THEN "REEFER"
    ELSE "FLATBED"

\* matchingAssetInfo.origin and matchingAssetInfo.destination.place: an empty
\* (or missing) dict, or a dict with city and stateProv, with or without
\* truthy latitude and longitude.
NoPlace == [present |-> FALSE, coordinates |-> FALSE, city |-> "", stateProv |-> ""]
Place(city, state, coordinates) ==
    [present |-> TRUE, coordinates |-> coordinates, city |-> city, stateProv |-> state]

\* A match: the fields the loop reads.  The rates and tripLength are the
\* fields of Load; the deadhead miles are in tenths of a mile, a missing key
\* reading as 0.
Match(id, origin, destination_place, equipment_code, ld, deadhead, next_deadhead) ==
    [matchId |-> id, origin |-> origin, destination_place |-> destination_place,
     equipmentType |-> equipment_code, load |-> ld,
     originDeadheadMiles |-> deadhead,
     destinationDeadheadMiles |-> next_deadhead]

\* What call_rateview_api returns: a dict with the error key, or the
\* provider's JSON with rateResponses, each holding a response dict with or
\* without rate (with or without perMile.rateUsd, mileage) and escalation.
RateviewError(message) == [error |-> Present(message), rateResponses |-> << >>]
RateviewJson(rate_responses) == [error |-> Absent, rateResponses |-> rate_responses]
ResponseObj(rate, escalation) == [rate |-> rate, escalation |-> escalation]
RateData(mileage, per_mile) == [mileage |-> mileage, perMile |-> per_mile]

\* if not origin or not destination_place: continue
SkippedWithoutOriginOnly(m) == ~m.origin.present

Skipped(m) == ~m.origin.present \/ ~m.destination_place.present

\* market_rate_per_mile left as the previous match set it.
MarketRateKept == market_rate

\* market_rate_per_mile = None, before the response is read.
NoMarketRate == NotANumber

\* rate_data after the response is read: rate of the first response, if any.
RateDataOf(response) ==
    IF response.error # Absent \/ response.rateResponses = << >> THEN Absent
    ELSE response.rateResponses[1].rate

\* market_rate_per_mile after the response is read.
MarketRatePerMile(response, initial) ==
    IF RateDataOf(response) = Absent THEN initial
    ELSE LET rate_data == CHOOSE r \in RateDataOf(response) : TRUE
         IN  IF rate_data.perMile = Absent THEN initial
             ELSE Num(CHOOSE v \in rate_data.perMile : TRUE)

\* processed_match["marketData"]: the rate data (an empty rate dict is falsy)
\* with the escalation of the response, else the error, else no key.
MarketDataOf(response) ==
    IF response.error # Absent
      THEN [kind |-> "error", error |-> response.error, rate |-> Absent,
            escalation |-> Absent]
    ELSE IF RateDataOf(response) \in {Absent, Present(RateData(Absent, Absent))}
      THEN [kind |-> "none", error |-> Absent, rate |-> Absent, escalation |-> Absent]
    ELSE [kind |-> "rate", error |-> Absent, rate |-> RateDataOf(response),
          escalation |-> response.rateResponses[1].escalation]

\* The difference handed to the scorer as get_rate_comparison returned it.
ScoredDifferenceAsReturned(c) == c.difference_percentage

\* difference_percentage if it is not "N/A", else 0
ScoredDifference(c) ==
    IF c.difference_percentage = Text("N/A") THEN Num(0) ELSE c.difference_percentage

\* driver_pay.get("amount") if it is a number, else 0
ScoredPay(p) == IF p.amount.numeric THEN p.amount ELSE Num(0)

\* deadhead_analysis.get("total_deadhead_ratio", 0)
ScoredRatio(d) ==
    IF "total_deadhead_ratio" \in DOMAIN d THEN d.total_deadhead_ratio ELSE 0

\* The weather data of one end: fetched only with truthy coordinates.
WeatherDataOf(place, fetched) == IF place.coordinates THEN fetched ELSE NoData

\* The calls one iteration makes to the providers, in order.
CallsOf(position, m) ==
    (IF m.origin.coordinates
       THEN << [provider |-> "get_weather_data", end |-> "origin", match |-> position] >>
       ELSE << >>)
    \o (IF m.destination_place.coordinates
          THEN << [provider |-> "get_weather_data", end |-> "destination",
                   match |-> position] >>
          ELSE << >>)
    \o << [provider |-> "call_rateview_api", end |-> "", match |-> position] >>

\* processed_match
ProcessedMatch(m, equipment, trip, rates, pay, weather, deadhead, score, market) ==
    [matchId |-> m.matchId,
     origin |-> [city |-> m.origin.city, state |-> m.origin.stateProv],
     destination |-> [city |-> m.destination_place.city,
                      state |-> m.destination_place.stateProv],
     equipmentType |-> [code |-> m.equipmentType, rateviewType |-> equipment],
     tripMiles |-> trip,
     rateComparison |-> rates,
     driver_pay |-> pay,
     weatherInfo |-> weather,
     deadheadAnalysis |-> deadhead,
     loadQuality |-> score,
     marketData |-> market]

\* An iteration of the loop on a match without origin or destination place.
SkipMatch ==
    /\ pc = "start"
    /\ match_index < Len(matches)
    /\ Skipped(matches[match_index + 1].match)
    /\ match_index' = match_index + 1
    /\ UNCHANGED <<pc, matches, processedMatches, provider_calls, trip_miles,
                   scoreVars, delayVars, hazardVars, weatherVars, deadheadVars,
                   rateVars, payVars, callVars>>

\* An iteration of the loop on any other match, from the reading of its
\* fields to the append of its record; the locals of the loop are the
\* variables of the same names.
ProcessMatch ==
    /\ pc = "start"
    /\ match_index < Len(matches)
    /\ ~Skipped(matches[match_index + 1].match)
    /\ LET item == matches[match_index + 1]
           m == item.match
           trip == m.load.trip_length_miles
           broker_rate_per_mile == GetBrokerRatePerMile(m.load)
           pay == CalculateDriverPayResult(m.load)
           origin_data == WeatherDataOf(m.origin, item.origin_weather)
           destination_data == WeatherDataOf(m.destination_place,
                                             item.destination_weather)
           weather_analysis == GetSimpleWeatherAnalysisResult(origin_data,
                                                              destination_data, trip)
           delay_hours == weather_analysis.estimated_delay.estimated_delay_hours
           deadhead == CalculateDeadheadAnalysisResult(m.originDeadheadMiles,
                                                       m.destinationDeadheadMiles, trip)
           market_rate_per_mile == MarketRatePerMile(item.rateview, NoMarketRate)
           comparison_result == GetRateComparisonResult(broker_rate_per_mile,
                                                        market_rate_per_mile)
           difference == ScoredDifference(comparison_result)
           amount == ScoredPay(pay)
           ratio == ScoredRatio(deadhead)
           fs == AllFactors(difference, weather_analysis.risk_score, ratio, amount,
                            delay_hours)
           fin == FinalScore(QualityScore(difference, weather_analysis.risk_score,
                                          ratio, amount, delay_hours))
           score == [score |-> fin, category |-> Category(fin),
                     key_factors |-> TopThree(fs)]
       IN  /\ trip_miles' = trip
           /\ load' = m.load
           /\ load_rate' = broker_rate_per_mile
           /\ pay_result' = pay
           /\ origin_weather_data' = origin_data
           /\ destination_weather_data' = destination_data
           /\ analysis' = weather_analysis
           /\ origin_deadhead_miles' = m.originDeadheadMiles
           /\ destination_deadhead_miles' = m.destinationDeadheadMiles
           /\ deadhead_analysis' = deadhead
           /\ market_rate' = market_rate_per_mile
           /\ comparison' = comparison_result
           /\ rate_comparison' = difference
           /\ weather_risk_score' = weather_analysis.risk_score
           /\ deadhead_ratio' = ratio
           /\ driver_pay' = amount
           /\ weather_delay_hours' = delay_hours
           /\ factors' = fs
           /\ load_score' = score
           /\ provider_calls' = provider_calls \o CallsOf(match_index + 1, m)
           /\ processedMatches' =
                Append(processedMatches,
                       ProcessedMatch(m, MapEquipmentCodeToRateview(m.equipmentType),
                                      trip, comparison_result, pay, weather_analysis,
                                      deadhead, score, MarketDataOf(item.rateview)))
    /\ match_index' = match_index + 1
    /\ UNCHANGED <<pc, matches, delayVars, hazardVars, callVars>>

\* return result, after the last match.
ReturnResult ==
    /\ pc = "start"
    /\ match_index = Len(matches)
    /\ pc' = "done"
    /\ UNCHANGED <<matches, match_index, processedMatches, provider_calls, trip_miles,
                   scoreVars, delayVars, hazardVars, weatherVars, deadheadVars,
                   rateVars, payVars, callVars>>

-----------------------------------------------------------------------------
(* Arguments *)

\* Longest hazard list and longest hourly forecast drawn with free entries,
\* and the longest list of one repeated hazard.
MaxHazards == 2
MaxHours   == 2
MaxRepeat  == 10

RateValues ==
    {NotANumber} \cup {Num(v) : v \in {0 - 100000, 0 - 3001, 0 - 3000, 0 - 1234, 0,
                                       60, 2000, 3000, 100000}}
RiskValues     == {0 - 1000, 0 - 10, 0, 25, 26, 50, 51, 100}
DelayValues    == {0 - 10, 0, 19, 20, 39, 40, 50, 1000}
DeadheadValues == {0 - 5, 0, 25, 26, 40, 41, 50, 500}
PayValues ==
    {NotANumber} \cup {Num(v) : v \in {0 - 100, 0, 25000, 25001, 35000, 35001,
                                       50000, 50001, 60000, 10000000}}

TripValues == {0 - 100, 0, 10, 300, 1200, 1375, 3300, 5500, 6600}

HazardKinds ==
    {[type |-> t, time |-> 0, severity |-> sv, precipitation |-> Absent,
      wind_speed |-> Absent] :
        t \in DOMAIN weather_impacts \cup {"Hail"},
        sv \in {"high", "medium", "low", Missing}}

\* Hazard lists: every list of at most MaxHazards kinds, and every list of at
\* most MaxRepeat copies of one kind.
IsHazardList(hs) ==
    \/ \E n \in 0..MaxHazards : hs \in [1..n -> HazardKinds]
    \/ \E n \in 1..MaxRepeat : \E h \in HazardKinds : hs = [i \in 1..n |-> h]

CodeValues == {0, 45, 48, 65, 66, 67, 71, 73, 75, 77, 82, 85, 86, 95, 96, 99, 100}

Samples ==
    {[weather_code |-> c, precipitation_mm |-> 20, wind_speed_kmh |-> 100] :
        c \in CodeValues}
    \cup {[weather_code |-> c, precipitation_mm |-> p, wind_speed_kmh |-> w] :
        c \in {0, 86}, p \in {20, 40, 50}, w \in {200, 300, 301, 499, 500}}

\* Hourly forecasts: the sample of hour i carries time i.
Timed(f) ==
    [i \in DOMAIN f |-> [time |-> i, weather_code |-> f[i].weather_code,
                         precipitation_mm |-> f[i].precipitation_mm,
                         wind_speed_kmh |-> f[i].wind_speed_kmh]]

\* Weather data: an error result, or at most MaxHours hourly samples.
IsWeatherData(wd) ==
    \/ wd = [error |-> TRUE, hourly_forecast |-> << >>]
    \/ \E n \in 0..MaxHours : \E f \in [1..n -> Samples] :
          wd = [error |-> FALSE, hourly_forecast |-> Timed(f)]

\* Samples of the forecasts given to get_simple_weather_analysis: no event,
\* Snow/high, Fog/medium, and Snow/high with Heavy Rain/medium and High
\* Winds/high.
AnalysisSamples ==
    {[weather_code |-> 0, precipitation_mm |-> 20, wind_speed_kmh |-> 100],
     [weather_code |-> 86, precipitation_mm |-> 20, wind_speed_kmh |-> 100],
     [weather_code |-> 45, precipitation_mm |-> 20, wind_speed_kmh |-> 100],
     [weather_code |-> 86, precipitation_mm |-> 50, wind_speed_kmh |-> 500]}

Day(description) == [weather_description |-> description]

DailyForecasts == {<< >>, << Day("Clear sky") >>, << Day(Missing) >>}

\* What get_weather_data returns on success, with at most MaxHours samples.
SuccessData(hourly, daily) ==
    [present |-> TRUE, error |-> FALSE, api_status |-> "success",
     hourly_forecast |-> hourly, daily_forecast |-> daily]

\* What get_weather_data returns on a failed request: the error key and
\* api_status "error" or "exception", no forecast.
ErrorData(status) ==
    [present |-> TRUE, error |-> TRUE, api_status |-> status,
     hourly_forecast |-> << >>, daily_forecast |-> << >>]

\* A stormy forecast under a status other than "success", and one that
\* carries the error key.
StormHour ==
    [weather_code |-> 86, precipitation_mm |-> 50, wind_speed_kmh |-> 500]
UnusableData ==
    {ErrorData("error"), ErrorData("exception"),
     [present |-> TRUE, error |-> FALSE, api_status |-> "error",
      hourly_forecast |-> Timed(<< StormHour >>),
      daily_forecast |-> << Day("Clear sky") >>],
     [present |-> TRUE, error |-> TRUE, api_status |-> "success",
      hourly_forecast |-> Timed(<< StormHour >>),
      daily_forecast |-> << Day("Clear sky") >>]}

\* A weather data argument: None, an unusable dict, or a successful result.
IsAnalysisInput(wd) ==
    \/ wd = NoData
    \/ wd \in UnusableData
    \/ \E n \in 0..MaxHours : \E f \in [1..n -> AnalysisSamples] :
          \E daily \in DailyForecasts : wd = SuccessData(Timed(f), daily)

AnalysisTripValues == {0, 10, 5500}

\* Arguments of calculate_deadhead_analysis, in tenths of a mile.
DeadheadMiles ==
    {0 - 60000, 0 - 300, 0, 50, 100, 104, 200, 300, 500, 510, 2500, 5500}
DeadheadTripValues == {0 - 1000, 0, 1000, 5000}

\* Arguments of get_rate_comparison: None and rates from -1 to 4 dollars.
LoadRates ==
    {NotANumber} \cup {Num(v) : v \in {0 - 10000, 0, 1, 20000, 24000, 25000,
                                       29999, 30000}}
MarketRates ==
    {NotANumber} \cup {Num(v) : v \in {0 - 5000, 0, 24000, 25000, 29999,
                                       30000, 40000}}

\* Loads given to calculate_driver_pay.
PayLoads ==
    {Load(e, p, b, m) : e \in {0 - 10000, 0, 25001, 30000},
                        p \in {0 - 100, 0, 100000, 150001},
                        b \in {0, 120000},
                        m \in {0 - 100, 0, 4000, 5000}}

\* The number of matches in loads_data.
MaxMatches == 3

SnowHour == [weather_code |-> 86, precipitation_mm |-> 20, wind_speed_kmh |-> 100]
FogHour == [weather_code |-> 45, precipitation_mm |-> 20, wind_speed_kmh |-> 100]

ClearData == SuccessData(<< >>, << Day("Clear sky") >>)
SnowData == SuccessData(Timed(<< SnowHour >>), << Day("Heavy snow showers") >>)
StormData == SuccessData(Timed(<< StormHour, FogHour >>), << >>)

MarketRateResponse(rate_usd) ==
    RateviewJson(<< ResponseObj(Present(RateData(Present(500), Present(rate_usd))),
                                Present("BEST_FIT")) >>)

\* A match together with what the providers answer when asked about it.
Item(m, origin_weather, destination_weather, rateview) ==
    [match |-> m, origin_weather |-> origin_weather,
     destination_weather |-> destination_weather, rateview |-> rateview]

\* Matches given to process_loads_and_compare_rates: a complete one; one
\* without origin and one without destination place; one without coordinates
\* whose rate lookup fails; one with trip miles 0; one without any rate, the
\* market rate dict lacking perMile; one with no rate response; one whose
\* response has no rate; one with negative trip miles and no rate.
PipelineItems ==
    {Item(Match("m1", Place("Chicago", "IL", TRUE), Place("Dallas", "TX", TRUE), "V",
                Load(30000, 100000, 0, 5000), 500, 250),
          SnowData, ClearData, MarketRateResponse(25000)),
     Item(Match("m2", NoPlace, Place("Dallas", "TX", TRUE), "V",
                Load(30000, 100000, 0, 5000), 500, 250),
          SnowData, ClearData, MarketRateResponse(25000)),
     Item(Match("m3", Place("Chicago", "IL", TRUE), NoPlace, "R",
                Load(30000, 100000, 0, 5000), 500, 250),
          SnowData, ClearData, MarketRateResponse(25000)),
     Item(Match("m4", Place("Reno", "NV", FALSE), Place("Boise", "ID", FALSE), "F",
                Load(0, 0, 120000, 4000), 0, 1000),
          SnowData, SnowData, RateviewError("API Error: 500")),
     Item(Match("m5", Place("Reno", "NV", TRUE), Place("Boise", "ID", TRUE), "VA",
                Load(25000, 0, 0, 0), 500, 500),
          StormData, SnowData, MarketRateResponse(24000)),
     Item(Match("m6", Place("Miami", "FL", TRUE), Place("Tampa", "FL", TRUE), "RA",
                Load(0, 0, 0, 5000), 2500, 0),
          ErrorData("error"), ClearData,
          RateviewJson(<< ResponseObj(Present(RateData(Present(500), Absent)),
                                      Absent) >>)),
     Item(Match("m7", Place("Miami", "FL", TRUE), Place("Tampa", "FL", FALSE), "R",
                Load(0 - 10000, 150000, 0, 5000), 0, 0),
          ClearData, ClearData, RateviewJson(<< >>)),
     Item(Match("m8", Place("Fargo", "ND", TRUE), Place("Butte", "MT", TRUE), "XYZ",
                Load(29999, 0, 0, 5500), 100, 104),
          StormData, StormData,
          RateviewJson(<< ResponseObj(Absent, Present("BEST_FIT")) >>)),
     Item(Match("m9", Place("Fargo", "ND", TRUE), Place("Butte", "MT", TRUE), "V",
                Load(0, 0, 0, 0 - 100), 500, 0),
          SnowData, StormData, MarketRateResponse(24000))}

-----------------------------------------------------------------------------
(* Specifications: one per function, the arguments drawn in the initial state *)

ScoreIdle ==
    /\ rate_comparison = Num(0)
    /\ weather_risk_score = 0
    /\ deadhead_ratio = 0
    /\ driver_pay = Num(0)
    /\ weather_delay_hours = 0
    /\ factors = << >>
    /\ load_score = NoScore

DelayIdle ==
    /\ hazards = << >>
    /\ delay_info = NoDelay

HazardIdle ==
    /\ weather_data = [error |-> FALSE, hourly_forecast |-> << >>]
    /\ hazard_report = NoReport

WeatherIdle ==
    /\ origin_weather_data = NoData
    /\ destination_weather_data = NoData
    /\ analysis = NoAnalysis

DeadheadIdle ==
    /\ origin_deadhead_miles = 0
    /\ destination_deadhead_miles = 0
    /\ deadhead_analysis = InvalidAnalysis

RateIdle ==
    /\ load_rate = NotANumber
    /\ market_rate = NotANumber
    /\ comparison = GetRateComparisonResult(NotANumber, NotANumber)

PayIdle ==
    /\ load = Load(0, 0, 0, 0)
    /\ pay_result = CalculateDriverPayResult(Load(0, 0, 0, 0))

CallsIdle == calls = << >>

PipelineIdle ==
    /\ matches = << >>
    /\ match_index = 0
    /\ processedMatches = << >>
    /\ provider_calls = << >>

InitScore ==
    /\ pc = "start"
    /\ rate_comparison \in RateValues
    /\ weather_risk_score \in RiskValues
    /\ deadhead_ratio \in DeadheadValues
    /\ driver_pay \in PayValues
    /\ weather_delay_hours \in DelayValues
    /\ trip_miles = 5000
    /\ factors = << >>
    /\ load_score = NoScore
    /\ DelayIdle
    /\ HazardIdle
    /\ WeatherIdle
    /\ DeadheadIdle
    /\ RateIdle
    /\ PayIdle
    /\ CallsIdle
    /\ PipelineIdle

InitDelay ==
    /\ pc = "start"
    /\ IsHazardList(hazards)
    /\ trip_miles \in TripValues
    /\ delay_info = NoDelay
    /\ ScoreIdle
    /\ HazardIdle
    /\ WeatherIdle
    /\ DeadheadIdle
    /\ RateIdle
    /\ PayIdle
    /\ CallsIdle
    /\ PipelineIdle

InitHazards ==
    /\ pc = "start"
    /\ IsWeatherData(weather_data)
    /\ hazard_report = NoReport
    /\ trip_miles = 0
    /\ ScoreIdle
    /\ DelayIdle
    /\ WeatherIdle
    /\ DeadheadIdle
    /\ RateIdle
    /\ PayIdle
    /\ CallsIdle
    /\ PipelineIdle

InitWeather ==
    /\ pc = "start"
    /\ IsAnalysisInput(origin_weather_data)
    /\ IsAnalysisInput(destination_weather_data)
    /\ trip_miles \in AnalysisTripValues
    /\ analysis = NoAnalysis
    /\ ScoreIdle
    /\ DelayIdle
    /\ HazardIdle
    /\ DeadheadIdle
    /\ RateIdle
    /\ PayIdle
    /\ CallsIdle
    /\ PipelineIdle

InitDeadhead ==
    /\ pc = "start"
    /\ origin_deadhead_miles \in DeadheadMiles
    /\ destination_deadhead_miles \in DeadheadMiles
    /\ trip_miles \in DeadheadTripValues
    /\ deadhead_analysis = InvalidAnalysis
    /\ ScoreIdle
    /\ DelayIdle
    /\ HazardIdle
    /\ WeatherIdle
    /\ RateIdle
    /\ PayIdle
    /\ CallsIdle
    /\ PipelineIdle

InitRate ==
    /\ pc = "start"
    /\ load_rate \in LoadRates
    /\ market_rate \in MarketRates
    /\ trip_miles = 0
    /\ comparison = GetRateComparisonResult(NotANumber, NotANumber)
    /\ ScoreIdle
    /\ DelayIdle
    /\ HazardIdle
    /\ WeatherIdle
    /\ DeadheadIdle
    /\ PayIdle
    /\ CallsIdle
    /\ PipelineIdle

InitPay ==
    /\ pc = "start"
    /\ load \in PayLoads
    /\ trip_miles = 0
    /\ pay_result = CalculateDriverPayResult(Load(0, 0, 0, 0))
    /\ ScoreIdle
    /\ DelayIdle
    /\ HazardIdle
    /\ WeatherIdle
    /\ DeadheadIdle
    /\ RateIdle
    /\ CallsIdle
    /\ PipelineIdle

InitCalls ==
    /\ pc = "start"
    /\ trip_miles = 5000
    /\ calls = << >>
    /\ ScoreIdle
    /\ DelayIdle
    /\ HazardIdle
    /\ WeatherIdle
    /\ DeadheadIdle
    /\ RateIdle
    /\ PayIdle
    /\ PipelineIdle

InitPipeline ==
    /\ pc = "start"
    /\ \E n \in 0..MaxMatches : matches \in [1..n -> PipelineItems]
    /\ match_index = 0
    /\ processedMatches = << >>
    /\ provider_calls = << >>
    /\ trip_miles = 0
    /\ ScoreIdle
    /\ DelayIdle
    /\ HazardIdle
    /\ WeatherIdle
    /\ DeadheadIdle
    /\ RateIdle
    /\ PayIdle
    /\ CallsIdle

NextScore   == CalculateLoadScore
NextDelay   == EstimateWeatherDelay
NextHazards == CheckForHazards
NextWeather == GetSimpleWeatherAnalysis
NextDeadhead == CalculateDeadheadAnalysis
NextRate == GetRateComparison
NextPay == CalculateDriverPay
NextCalls == InvokeLoadScore
NextPipeline == SkipMatch \/ ProcessMatch \/ ReturnResult

SpecScore   == InitScore /\ [][NextScore]_vars
SpecDelay   == InitDelay /\ [][NextDelay]_vars
SpecHazards == InitHazards /\ [][NextHazards]_vars
SpecWeather == InitWeather /\ [][NextWeather]_vars
SpecDeadhead == InitDeadhead /\ [][NextDeadhead]_vars
SpecRate == InitRate /\ [][NextRate]_vars
SpecPay == InitPay /\ [][NextPay]_vars
SpecCalls == InitCalls /\ [][NextCalls]_vars
SpecPipeline == InitPipeline /\ [][NextPipeline]_vars

-----------------------------------------------------------------------------
(* Properties of calculate_load_score, checked under SpecScore *)

Scored == pc = "done"

NonNegativeInputs ==
    weather_risk_score >= 0 /\ weather_delay_hours >= 0 /\ deadhead_ratio >= 0

\* C1: the score returned by calculate_load_score is an integer between 0 and
\* 100 for every combination of arguments, the extreme ones included
\* (difference +-1000 %, risk 100, ratio 5, delay 100 h, pay 100000).
ThmC1_ScoreInRange == Scored => load_score.score \in 0..100

\* C1 witness: the call on difference -1000 %, risk 100, ratio 5, delay 100 h
\* and pay 100000 returned; the sum of the adjustments is below 0 there.
WitC1_ExtremeInputs ==
    /\ Scored
    /\ rate_comparison = Num(0 - 100000)
    /\ weather_risk_score = 100
    /\ deadhead_ratio = 500
    /\ weather_delay_hours = 1000
    /\ driver_pay = Num(10000000)
    /\ QualityScore(rate_comparison, weather_risk_score, deadhead_ratio,
                    driver_pay, weather_delay_hours) < 0
    /\ load_score.score = 0

\* The score as the claim writes it, without the code's guards:
\* round(clamp(50 + clamp(d, -30, 30) * 25/30 - risk/6.67 - min(delay*3, 15)
\*             - min(ratio*40, 20) + pay_bonus, 0, 100)).
ClaimedPayBonus(pay) ==
    IF pay > 50000 THEN 15 ELSE IF pay > 35000 THEN 10 ELSE IF pay > 25000 THEN 5 ELSE 0

ClaimedScore(d, risk, ratio, pay, delay) ==
    LET clampedRate == IF d > 3000 THEN 3000 ELSE IF d < 0 - 3000 THEN 0 - 3000 ELSE d
        sum == 50 * 80040
               + clampedRate * 667
               - risk * 12000
               - Min(delay * 24012, 15 * 80040)
               - Min(ratio * 32016, 20 * 80040)
               + ClaimedPayBonus(pay) * 80040
        clamped == IF sum < 0 THEN 0 ELSE IF sum > 100 * 80040 THEN 100 * 80040 ELSE sum
    IN  RoundHalfEven(clamped, 80040)

\* C2: for numeric difference and pay and non-negative risk, delay and ratio
\* the returned score is the closed formula of the claim; on difference 20 %,
\* risk 0, ratio 0, 500 miles, pay 600 and delay 0 it is 82, category Excellent.
ThmC2_ScoreFormula ==
    /\ (Scored /\ NonNegativeInputs /\ rate_comparison.numeric /\ driver_pay.numeric)
          => load_score.score = ClaimedScore(rate_comparison.v, weather_risk_score,
                                             deadhead_ratio, driver_pay.v,
                                             weather_delay_hours)
    /\ (/\ Scored
        /\ rate_comparison = Num(2000)
        /\ weather_risk_score = 0
        /\ deadhead_ratio = 0
        /\ trip_miles = 5000
        /\ driver_pay = Num(60000)
        /\ weather_delay_hours = 0)
          => (load_score.score = 82 /\ load_score.category = "Excellent")

\* C2 witness: the scenario of the claim has been scored.
WitC2_Scenario ==
    /\ Scored
    /\ rate_comparison = Num(2000)
    /\ weather_risk_score = 0
    /\ deadhead_ratio = 0
    /\ trip_miles = 5000
    /\ driver_pay = Num(60000)
    /\ weather_delay_hours = 0
    /\ load_score.score = 82

ClaimedCategory(sc) ==
    CASE sc >= 80 -> "Excellent"
      [] sc >= 65 /\ sc < 80 -> "Good"
      [] sc >= 45 /\ sc < 65 -> "Average"
      [] sc >= 25 /\ sc < 45 -> "Poor"
      [] sc < 25 -> "Very Poor"

\* C3: the category is a function of the final integer score alone, by the
\* thresholds 80, 65, 45 and 25, and every score in 0..100 has its category.
ThmC3_CategoryThresholds ==
    /\ Scored => load_score.category = ClaimedCategory(load_score.score)
    /\ \A sc \in 0..100 : Category(sc) = ClaimedCategory(sc)

\* C3 witness: a call returned a score on a threshold, 65, with category Good.
WitC3_OnThreshold ==
    Scored /\ load_score.score = 65 /\ load_score.category = "Good"

\* The priority of a phrase: rate 1, weather risk 2, delay 3, deadhead 4, pay 5.
Priority(f) ==
    CASE f.phrase \in {"% above market rate", "% below market rate"} -> 1
      [] f.phrase \in {"High weather risk", "Moderate weather risk"} -> 2
      [] f.phrase \in {"Severe delay risk (hrs)", "Significant delay risk (hrs)"} -> 3
      [] f.phrase \in {"Excessive deadhead (%)", "High deadhead (%)"} -> 4
      [] f.phrase \in {"Excellent pay", "Good pay"} -> 5

\* Whether the phrase of a priority qualifies, and which tier it is in.
ClaimedQualifies(k) ==
    CASE k = 1 -> rate_comparison.numeric /\ rate_comparison.v # 0
      [] k = 2 -> weather_risk_score > 25
      [] k = 3 -> weather_delay_hours >= 20
      [] k = 4 -> deadhead_ratio > 25
      [] k = 5 -> driver_pay.numeric /\ driver_pay.v > 35000

ClaimedPhrase(k) ==
    CASE k = 1 -> IF rate_comparison.v > 0 THEN "% above market rate"
                                          ELSE "% below market rate"
      [] k = 2 -> IF weather_risk_score > 50 THEN "High weather risk"
                                             ELSE "Moderate weather risk"
      [] k = 3 -> IF weather_delay_hours >= 40 THEN "Severe delay risk (hrs)"
                                               ELSE "Significant delay risk (hrs)"
      [] k = 4 -> IF deadhead_ratio > 40 THEN "Excessive deadhead (%)"
                                         ELSE "High deadhead (%)"
      [] k = 5 -> IF driver_pay.v > 50000 THEN "Excellent pay" ELSE "Good pay"

HigherQualifying(k) == Cardinality({j \in 1..(k - 1) : ClaimedQualifies(j)})

\* C4: key_factors holds at most 3 phrases, in strictly increasing priority,
\* and the phrase of a priority is in it exactly when it qualifies and fewer
\* than three phrases of higher priority qualify (the pay phrase qualifying as
\* the code appends it, see C5).
ThmC4_TopThreeFactors ==
    Scored =>
        LET kf == load_score.key_factors
        IN  /\ Len(kf) <= 3
            /\ \A i \in 1..Len(kf), j \in 1..Len(kf) :
                  i < j => Priority(kf[i]) < Priority(kf[j])
            /\ \A k \in 1..5 :
                  (\E i \in 1..Len(kf) : Priority(kf[i]) = k)
                     <=> (ClaimedQualifies(k) /\ HigherQualifying(k) < 3)
            /\ \A i \in 1..Len(kf) : kf[i].phrase = ClaimedPhrase(Priority(kf[i]))

\* C4 witness: all five phrases qualify and the call returned the first three.
WitC4_FiveQualify ==
    /\ Scored
    /\ \A k \in 1..5 : ClaimedQualifies(k)
    /\ Len(load_score.key_factors) = 3
    /\ Len(factors) = 5

PayPhraseListed == \E i \in 1..Len(factors) : Priority(factors[i]) = 5

\* C5 as claimed: the pay phrase is among the populated factors exactly when
\* driver pay > 250.
CexC5_PayPhraseAbove250 ==
    (Scored /\ driver_pay.numeric) => (PayPhraseListed <=> driver_pay.v > 25000)

\* C5 as amended: the pay phrase is among the populated factors exactly when
\* driver pay > 350 ("Good pay" up to 500, "Excellent pay" above); a pay in
\* (250, 350] earns its 5 points and no phrase.
ThmC5_PayPhraseAbove350 ==
    (Scored /\ driver_pay.numeric) =>
        /\ PayPhraseListed <=> driver_pay.v > 35000
        /\ (driver_pay.v > 25000 /\ driver_pay.v <= 35000)
              => (~PayPhraseListed /\ PayBonus(driver_pay) = 5 * ScoreScale)

\* C5 witness: a call with pay 350 returned, with the bonus and without phrase.
WitC5_PayBetweenTiers ==
    /\ Scored
    /\ driver_pay = Num(35000)
    /\ ~PayPhraseListed
    /\ PayBonus(driver_pay) = 5 * ScoreScale

-----------------------------------------------------------------------------
(* Properties of estimate_weather_delay, checked under SpecDelay *)

Estimated == pc = "done"

\* The table of the specification: type, severity, percent of normal speed,
\* percent of route affected.
ClaimedTable ==
    { <<"Snow", "high", 40, 60>>,          <<"Snow", "medium", 60, 50>>,
      <<"Freezing Rain", "high", 35, 50>>, <<"Freezing Rain", "medium", 50, 40>>,
      <<"Thunderstorm", "high", 50, 30>>,  <<"Thunderstorm", "medium", 70, 20>>,
      <<"Fog", "high", 40, 40>>,           <<"Fog", "medium", 60, 30>>,
      <<"Heavy Rain", "high", 60, 40>>,    <<"Heavy Rain", "medium", 70, 30>>,
      <<"High Winds", "high", 70, 60>>,    <<"High Winds", "medium", 80, 40>> }

ClaimedRows(hazard) ==
    {row \in ClaimedTable : row[1] = hazard.type /\ row[2] = SeverityOf(hazard)}

\* trip*rf/(55*sf) - trip*rf/55 = trip * rf * (1 - sf) / (55 * sf), in units
\* of 1/115500 hour for a trip in tenths of a mile and sf, rf in percent.
ClaimedDelay(row, trip) == (trip * row[4] * (100 - row[3]) * 21) \div (10 * row[3])

\* The delay a hazard adds: that of its row when it is strictly above a
\* quarter of an hour, nothing otherwise and nothing without a row.
ClaimedContribution(hazard, trip) ==
    IF ClaimedRows(hazard) = {} THEN 0
    ELSE LET d == ClaimedDelay(CHOOSE row \in ClaimedRows(hazard) : TRUE, trip)
         IN  IF 4 * d > 115500 THEN d ELSE 0

RECURSIVE ClaimedSum(_, _, _)
ClaimedSum(hs, trip, n) ==
    IF n = 0 THEN 0 ELSE ClaimedSum(hs, trip, n - 1) + ClaimedContribution(hs[n], trip)

SnowHigh == [type |-> "Snow", time |-> 0, severity |-> "high",
             precipitation |-> Absent, wind_speed |-> Absent]
WindMedium == [type |-> "High Winds", time |-> 0, severity |-> "medium",
               precipitation |-> Absent, wind_speed |-> Absent]
TenSnowHigh == [i \in 1..10 |-> SnowHigh]

\* C6: for trip_miles > 0 and a non-empty hazard list the reported hours are
\* the sum, rounded to 1 decimal, of the table delays of the recognized
\* hazards that are strictly above 0.25 h, each event counted; a delay of
\* exactly 0.25 h (High Winds/medium on 137.5 miles) is discarded; ten
\* Snow/high hazards on 550 miles report ten times the 9 h of row (0.40, 0.60).
ThmC6_DelaySum ==
    /\ (Estimated /\ hazards # << >> /\ trip_miles > 0)
          => delay_info.estimated_delay_hours
               = RoundHalfEven(ClaimedSum(hazards, trip_miles, Len(hazards)) * 10, 115500)
    /\ (Estimated /\ hazards = << WindMedium >> /\ trip_miles = 1375)
          => (/\ ClaimedDelay(<<"High Winds", "medium", 80, 40>>, 1375) * 4 = 115500
              /\ delay_info.estimated_delay_hours = 0
              /\ delay_info.delay_factors = << >>)
    /\ (Estimated /\ hazards = TenSnowHigh /\ trip_miles = 5500)
          => (/\ delay_info.estimated_delay_hours = 900
              /\ Len(delay_info.delay_factors) = 10)

\* C6 witness: the call on ten Snow/high hazards and 550 miles returned 90 h.
WitC6_TenSnowHigh ==
    /\ Estimated
    /\ hazards = TenSnowHigh
    /\ trip_miles = 5500
    /\ delay_info.estimated_delay_hours = 900

\* C7: an empty hazard list or trip_miles <= 0 gives 0 hours, no delay factors
\* and impact level "None", whatever the other argument.
ThmC7_NoDelayInput ==
    (Estimated /\ (hazards = << >> \/ trip_miles <= 0))
        => /\ delay_info.estimated_delay_hours = 0
           /\ delay_info.delay_factors = << >>
           /\ delay_info.impact_level = "None"

\* C7 witness: a call with hazards and trip_miles <= 0 returned.
WitC7_HazardsNoMiles ==
    /\ Estimated
    /\ Len(hazards) = 2
    /\ Recognized(hazards[1])
    /\ trip_miles < 0
    /\ delay_info.impact_level = "None"

ClaimedImpact(total) ==
    CASE 2 * total < 115500 -> "Minimal"
      [] 2 * total >= 115500 /\ total < 2 * 115500 -> "Moderate"
      [] total >= 2 * 115500 /\ total < 4 * 115500 -> "Significant"
      [] total >= 4 * 115500 -> "Severe"

\* C8: for a non-empty hazard list and trip_miles > 0 the impact level follows
\* the total delay: Minimal below 0.5 h, Moderate from 0.5 h, Significant from
\* 2 h, Severe from 4 h.
ThmC8_ImpactThresholds ==
    (Estimated /\ hazards # << >> /\ trip_miles > 0)
        => delay_info.impact_level
             = ClaimedImpact(ClaimedSum(hazards, trip_miles, Len(hazards)))

\* C8 witness: a call whose total is exactly 2 h returned Significant.
WitC8_ExactlyTwoHours ==
    /\ Estimated
    /\ hazards # << >>
    /\ trip_miles > 0
    /\ TotalDelay(hazards, trip_miles) = 2 * DelayUnitsPerHour
    /\ delay_info.impact_level = "Significant"

\* total_delay_hours of the call (0 on the early return).
TotalOfCall == IF NoDelayInput(hazards, trip_miles) THEN 0 ELSE TotalDelay(hazards, trip_miles)

\* C9 as claimed: every result whose total delay is 0 has impact level "None".
CexC9_ZeroTotalIsNone ==
    (Estimated /\ TotalOfCall = 0) => delay_info.impact_level = "None"

\* C9 as amended: impact level "None" is returned exactly when the hazard list
\* is empty or trip_miles <= 0; a non-empty list on trip_miles > 0 whose
\* delays are all discarded or unrecognized reports 0 hours with "Minimal".
ThmC9_NoneOnlyOnEarlyReturn ==
    Estimated =>
        /\ delay_info.impact_level = "None" <=> (hazards = << >> \/ trip_miles <= 0)
        /\ (hazards # << >> /\ trip_miles > 0 /\ TotalOfCall = 0)
              => (/\ delay_info.impact_level = "Minimal"
                  /\ delay_info.estimated_delay_hours = 0)

\* C9 witness: a call on recognized hazards and 1 mile returned 0 h, Minimal.
WitC9_AllDiscarded ==
    /\ Estimated
    /\ hazards # << >>
    /\ \A i \in 1..Len(hazards) : Recognized(hazards[i])
    /\ trip_miles > 0
    /\ delay_info.estimated_delay_hours = 0
    /\ delay_info.impact_level = "Minimal"

-----------------------------------------------------------------------------
(* Properties of check_for_hazards, checked under SpecHazards *)

Checked == pc = "done"

CodeTypes == {"Snow", "Thunderstorm", "Freezing Rain", "Fog"}

\* The code-based events reported for the sample of hour t, as <<type, severity>>.
CodeEventsAt(t) ==
    LET hs == hazard_report.hazards
    IN  SelectSeq([i \in 1..Len(hs) |-> <<hs[i].type, hs[i].severity, hs[i].time>>],
                  LAMBDA e : e[3] = t /\ e[1] \in CodeTypes)

\* The classification of the claim.
ClaimedCodeEvent(code, t) ==
    CASE code \in {75, 86} -> << <<"Snow", "high", t>> >>
      [] code \in {71, 73, 77, 85} -> << <<"Snow", "medium", t>> >>
      [] code \in {95, 96, 99} -> << <<"Thunderstorm", "high", t>> >>
      [] code \in {66, 67} -> << <<"Freezing Rain", "high", t>> >>
      [] code \in {45, 48} -> << <<"Fog", "medium", t>> >>
      [] OTHER -> << >>

\* C10: every hourly sample yields at most one weather-code event: Snow for
\* 71, 73, 75, 77, 85, 86 (high for 75 and 86, medium otherwise),
\* Thunderstorm/high for 95, 96, 99, Freezing Rain/high for 66, 67, Fog/medium
\* for 45, 48, and none for any other code.
ThmC10_CodeClassification ==
    (Checked /\ ~weather_data.error) =>
        \A i \in 1..Len(weather_data.hourly_forecast) :
            LET hour == weather_data.hourly_forecast[i]
            IN  /\ Len(CodeEventsAt(hour.time)) <= 1
                /\ CodeEventsAt(hour.time) = ClaimedCodeEvent(hour.weather_code, hour.time)

\* C10 witness: a forecast of a code 86 sample and a code 65 sample has been
\* checked: Snow/high for the first, no code-based event for the second.
WitC10_SnowShowersThenRain ==
    /\ Checked
    /\ ~weather_data.error
    /\ Len(weather_data.hourly_forecast) = 2
    /\ weather_data.hourly_forecast[1].weather_code = 86
    /\ weather_data.hourly_forecast[2].weather_code = 65
    /\ CodeEventsAt(1) = << <<"Snow", "high", 1>> >>
    /\ CodeEventsAt(2) = << >>

\* The events reported for the sample of hour t, as <<type, severity>>.
EventsAt(t) ==
    LET hs == hazard_report.hazards
    IN  [i \in 1..Len(SelectSeq(hs, LAMBDA e : e.time = t)) |->
            LET e == SelectSeq(hs, LAMBDA x : x.time = t)[i]
            IN  <<e.type, e.severity>>]

\* The events of one type reported for the sample of hour t.
EventsOfTypeAt(type, t) == SelectSeq(EventsAt(t), LAMBDA e : e[1] = type)

\* C11: a sample yields a Heavy Rain/medium event exactly when its
\* precipitation is above 4 mm (none at 4), and a High Winds event exactly when
\* its wind is above 30 km/h (none at 30), medium below 50 km/h and high from
\* 50 km/h on; the sample with 5 mm, 20 km/h and code 0 yields one Heavy
\* Rain/medium event and nothing else.
ThmC11_RainAndWindThresholds ==
    (Checked /\ ~weather_data.error) =>
        \A i \in 1..Len(weather_data.hourly_forecast) :
            LET hour == weather_data.hourly_forecast[i]
                rain == EventsOfTypeAt("Heavy Rain", hour.time)
                wind == EventsOfTypeAt("High Winds", hour.time)
            IN  /\ rain = IF hour.precipitation_mm > 40
                            THEN << <<"Heavy Rain", "medium">> >> ELSE << >>
                /\ wind = IF hour.wind_speed_kmh <= 300 THEN << >>
                          ELSE IF hour.wind_speed_kmh < 500
                            THEN << <<"High Winds", "medium">> >>
                          ELSE << <<"High Winds", "high">> >>
                /\ (/\ hour.precipitation_mm = 50
                    /\ hour.wind_speed_kmh = 200
                    /\ hour.weather_code = 0)
                      => EventsAt(hour.time) = << <<"Heavy Rain", "medium">> >>

\* C11 witness: the forecast (5 mm, 20 km/h, code 0), (4 mm, 50 km/h, code 0)
\* has been checked: one Heavy Rain/medium event for the first sample, one
\* High Winds/high event and no rain event for the second.
WitC11_FiveMillimetresThenFiftyKmh ==
    /\ Checked
    /\ ~weather_data.error
    /\ Len(weather_data.hourly_forecast) = 2
    /\ weather_data.hourly_forecast[1].weather_code = 0
    /\ weather_data.hourly_forecast[1].precipitation_mm = 50
    /\ weather_data.hourly_forecast[1].wind_speed_kmh = 200
    /\ weather_data.hourly_forecast[2].weather_code = 0
    /\ weather_data.hourly_forecast[2].precipitation_mm = 40
    /\ weather_data.hourly_forecast[2].wind_speed_kmh = 500
    /\ EventsAt(1) = << <<"Heavy Rain", "medium">> >>
    /\ EventsAt(2) = << <<"High Winds", "high">> >>
    /\ hazard_report.hazard_count = 2

\* The place of an event type in the order of the claim: the weather-code
\* event, then Heavy Rain, then High Winds.
ClaimedRank(type) ==
    IF type \in CodeTypes THEN 1 ELSE IF type = "Heavy Rain" THEN 2
    ELSE IF type = "High Winds" THEN 3 ELSE 0

\* C12: check_for_hazards returns one flat list: the events of an earlier
\* sample precede those of a later one, every sample contributes 0 to 3 events
\* in the order weather-code event, Heavy Rain, High Winds, hazard_count is the
\* length of the list, and an empty hourly sequence gives an empty list
\* without an error.
ThmC12_FlatOrderedList ==
    (Checked /\ ~weather_data.error) =>
        LET hs == hazard_report.hazards
            hourly == weather_data.hourly_forecast
        IN  /\ ~hazard_report.error
            /\ \A i \in 1..Len(hs) :
                  /\ ClaimedRank(hs[i].type) \in 1..3
                  /\ \E k \in 1..Len(hourly) : hourly[k].time = hs[i].time
            /\ \A i, j \in 1..Len(hs) :
                  i < j => \/ hs[i].time < hs[j].time
                           \/ /\ hs[i].time = hs[j].time
                              /\ ClaimedRank(hs[i].type) < ClaimedRank(hs[j].type)
            /\ \A k \in 1..Len(hourly) : Len(EventsAt(hourly[k].time)) \in 0..3
            /\ hazard_report.hazard_count = Len(hs)
            /\ hourly = << >> => hs = << >>

\* C12 witness: a forecast whose first sample gives three events (code 86,
\* 5 mm, 50 km/h) and whose second gives two (code 0, 5 mm, 30.1 km/h) has
\* been checked: five events, in the order of the claim.
WitC12_ThreeEventsThenTwo ==
    /\ Checked
    /\ ~weather_data.error
    /\ Len(weather_data.hourly_forecast) = 2
    /\ EventsAt(1) = << <<"Snow", "high">>, <<"Heavy Rain", "medium">>,
                        <<"High Winds", "high">> >>
    /\ EventsAt(2) = << <<"Heavy Rain", "medium">>, <<"High Winds", "medium">> >>
    /\ hazard_report.hazard_count = 5
    /\ Len(hazard_report.hazards) = 5
    /\ hazard_report.hazards[4].time = 2

-----------------------------------------------------------------------------
(* Properties of get_simple_weather_analysis, checked under SpecWeather *)

Analyzed == pc = "done"

\* A side as the claims call it usable: a dict without the error key whose
\* api_status is "success".
ClaimedUsable(wd) == wd.present /\ ~wd.error /\ wd.api_status = "success"

\* The number of hazard lines of one side and severity in the result.
LinesOf(side, severity) ==
    Cardinality({i \in 1..Len(analysis.hazards) :
                    /\ analysis.hazards[i].side = side
                    /\ analysis.hazards[i].severity = severity})

ClaimedRawRisk ==
    20 * LinesOf("Origin", "high") + 10 * LinesOf("Origin", "medium")
    + 15 * LinesOf("Destination", "high") + 5 * LinesOf("Destination", "medium")

\* C13: when both sides are usable, risk_score is min(100, 20 * origin high
\* + 10 * origin medium + 15 * destination high + 5 * destination medium),
\* and so lies between 0 and 100.
ThmC13_RiskScoreFormula ==
    (/\ Analyzed
     /\ ClaimedUsable(origin_weather_data)
     /\ ClaimedUsable(destination_weather_data))
        => /\ analysis.risk_score = Min(100, ClaimedRawRisk)
           /\ analysis.risk_score \in 0..100

\* C13 witness: both sides usable with hazards on both, the weighted sum is
\* 20 + 10 + 20 + 20 + 15 + 5 + 15 = 105 and the score returned is 100.
WitC13_CappedAtHundred ==
    /\ Analyzed
    /\ ClaimedUsable(origin_weather_data)
    /\ ClaimedUsable(destination_weather_data)
    /\ LinesOf("Origin", "high") = 3
    /\ LinesOf("Origin", "medium") = 1
    /\ LinesOf("Destination", "high") = 2
    /\ LinesOf("Destination", "medium") = 1
    /\ ClaimedRawRisk = 105
    /\ analysis.risk_score = 100

\* The risk level of the claim.
ClaimedRiskLevel(s) ==
    CASE s = 0 -> "None"
      [] 0 < s /\ s < 25 -> "Low"
      [] 25 <= s /\ s < 50 -> "Medium"
      [] 50 <= s /\ s < 75 -> "High"
      [] s >= 75 -> "Severe"

\* C14: outside the no-data return, risk_level is determined by the capped
\* risk_score: None at 0, Low below 25, Medium from 25 to below 50, High from
\* 50 to below 75, Severe from 75 on.
ThmC14_RiskLevelThresholds ==
    (Analyzed /\ origin_weather_data.present /\ destination_weather_data.present)
        => analysis.risk_level = ClaimedRiskLevel(analysis.risk_score)

\* C14 witness: one Snow/high at the origin and one Fog/medium at the
\* destination give exactly 25, reported as Medium.
WitC14_ExactlyTwentyFive ==
    /\ Analyzed
    /\ origin_weather_data.present
    /\ destination_weather_data.present
    /\ LinesOf("Origin", "high") = 1
    /\ LinesOf("Destination", "medium") = 1
    /\ Len(analysis.hazards) = 2
    /\ analysis.risk_score = 25
    /\ analysis.risk_level = "Medium"

\* The fixed no-data state of the claims: summary 'No weather data
\* available', risk level 'Unknown', score 0, no hazards, a zero delay
\* estimate with impact 'None'.
IsNoDataState(a) ==
    /\ a.summary.text = "No weather data available"
    /\ a.risk_level = "Unknown"
    /\ a.risk_score = 0
    /\ a.hazards = << >>
    /\ a.estimated_delay.estimated_delay_hours = 0
    /\ a.estimated_delay.delay_factors = << >>
    /\ a.estimated_delay.impact_level = "None"

\* C15 as claimed: if either side is unusable (missing, error-tagged, or with
\* an api_status other than success) the function returns exactly the fixed
\* no-data state, so that an error-tagged side gives what an absent side gives.
CexC15_UnusableSideIsNoData ==
    (/\ Analyzed
     /\ \/ ~ClaimedUsable(origin_weather_data)
        \/ ~ClaimedUsable(destination_weather_data))
        => IsNoDataState(analysis)

\* C15, what the code does: an absent side (None or an empty dict) gives the
\* no-data state; a side that is present but error-tagged or not successful
\* does not: the analysis is then computed from the other side, with a risk
\* level other than 'Unknown' and a summary other than 'No weather data
\* available'.
ThmC15_OnlyAbsentSideIsNoData ==
    Analyzed =>
        /\ (~origin_weather_data.present \/ ~destination_weather_data.present)
              => IsNoDataState(analysis)
        /\ (/\ origin_weather_data.present
            /\ destination_weather_data.present
            /\ \/ ~ClaimedUsable(origin_weather_data)
               \/ ~ClaimedUsable(destination_weather_data))
              => /\ analysis.risk_level \in {"None", "Low", "Medium", "High", "Severe"}
                 /\ analysis.summary.text # "No weather data available"

\* C15 witness: the origin is the error result of a failed request and the
\* destination is a successful result without hazards; the analysis returned
\* is 'No significant weather hazards. Origin: Unknown, Destination: Clear
\* sky' with risk level 'None', where an absent origin gives the no-data state.
WitC15_ErrorTaggedOrigin ==
    /\ Analyzed
    /\ origin_weather_data = ErrorData("error")
    /\ destination_weather_data = SuccessData(<< >>, << Day("Clear sky") >>)
    /\ trip_miles = 5500
    /\ analysis.risk_level = "None"
    /\ analysis.summary.text =
          "No significant weather hazards. Origin: {origin_weather}, Destination: {destination_weather}"
    /\ analysis.summary.origin_weather = "Unknown"
    /\ analysis.summary.destination_weather = "Clear sky"
    /\ ~IsNoDataState(analysis)

\* The hazards a side has to contribute: those of its hourly forecast when the
\* side is usable, none otherwise.
ExpectedSide(wd) ==
    IF ClaimedUsable(wd) THEN HazardsOf(wd.hourly_forecast) ELSE << >>

\* The contributions of both sides to the hazard list, the risk score and the
\* delay estimate.
SidesContribute ==
    LET o == ExpectedSide(origin_weather_data)
        d == ExpectedSide(destination_weather_data)
    IN  /\ analysis.hazards = HazardLines("Origin", o) \o HazardLines("Destination", d)
        /\ analysis.risk_score = Min(100, ClaimedRawRisk)
        /\ analysis.estimated_delay = EstimateWeatherDelayResult(o \o d, trip_miles)

\* C16 as claimed: whenever at least one side is usable the function does not
\* return the no-data state and the usable side's hazards contribute to the
\* hazard list, the risk score and the delay estimate; the no-data state is
\* forced only when both sides are absent.
CexC16_OneUsableSideSuffices ==
    Analyzed =>
        /\ (\/ ClaimedUsable(origin_weather_data)
            \/ ClaimedUsable(destination_weather_data))
              => (~IsNoDataState(analysis) /\ SidesContribute)
        /\ IsNoDataState(analysis)
              => (~origin_weather_data.present /\ ~destination_weather_data.present)

\* C16 amended: the no-data state is returned exactly when at least one side
\* is absent (None or empty), whatever the other side holds; when both sides
\* are present, every usable side's hazards contribute to the hazard list,
\* the risk score and the delay estimate, and a side that is present but not
\* usable contributes nothing.
ThmC16_BothPresentSidesContribute ==
    Analyzed =>
        /\ IsNoDataState(analysis)
              <=> (~origin_weather_data.present \/ ~destination_weather_data.present)
        /\ (origin_weather_data.present /\ destination_weather_data.present)
              => SidesContribute

\* C16 witness: the origin is present with a stormy forecast under api_status
\* "error", the destination is usable with Snow/high, Heavy Rain/medium and
\* High Winds/high: the three destination hazards alone make the list, the
\* score 15 + 5 + 15 and a delay above 0.
WitC16_DestinationAloneContributes ==
    /\ Analyzed
    /\ origin_weather_data.present
    /\ ~ClaimedUsable(origin_weather_data)
    /\ origin_weather_data.hourly_forecast # << >>
    /\ ClaimedUsable(destination_weather_data)
    /\ Len(destination_weather_data.hourly_forecast) = 1
    /\ trip_miles = 5500
    /\ Len(analysis.hazards) = 3
    /\ \A i \in 1..3 : analysis.hazards[i].side = "Destination"
    /\ analysis.risk_score = 35
    /\ analysis.estimated_delay.estimated_delay_hours = 129

-----------------------------------------------------------------------------
(* Properties of calculate_deadhead_analysis, checked under SpecDeadhead *)

Measured == pc = "done"

\* The ratio and percentage keys of a successful result.
RatioFields ==
    {"origin_deadhead_ratio", "destination_deadhead_ratio", "total_deadhead_ratio",
     "paid_miles_percentage", "unpaid_miles_percentage"}

\* C17: for every trip_miles <= 0 the call returns, without an exception, the
\* result tagged 'invalid', which has no ratio or percentage key; for every
\* trip_miles > 0 it returns status 'success' with all of them.
ThmC17_InvalidTripMiles ==
    Measured =>
        /\ trip_miles <= 0
              => /\ deadhead_analysis.status = "invalid"
                 /\ DOMAIN deadhead_analysis = {"status", "message"}
                 /\ DOMAIN deadhead_analysis \cap RatioFields = {}
        /\ trip_miles > 0
              => /\ deadhead_analysis.status = "success"
                 /\ RatioFields \subseteq DOMAIN deadhead_analysis

\* C17 witness: the call on 50 and 10 deadhead miles and 0 trip miles
\* returned the invalid result.
WitC17_ZeroTripMiles ==
    /\ Measured
    /\ trip_miles = 0
    /\ origin_deadhead_miles = 500
    /\ destination_deadhead_miles = 100
    /\ deadhead_analysis.status = "invalid"

\* paid_miles_percentage + unpaid_miles_percentage is within 0.1 of 100.
PercentagesAddUp ==
    Abs(deadhead_analysis.paid_miles_percentage
        + deadhead_analysis.unpaid_miles_percentage - 1000) <= 1

\* C18 as claimed: for every trip_miles > 0 and all deadhead miles, the paid
\* and the unpaid percentage add up to 100 within 0.1.
CexC18_PercentagesAddUpAlways == (Measured /\ trip_miles > 0) => PercentagesAddUp

\* C18 amended: for trip_miles > 0 the two percentages add up to 100 within
\* 0.1 whenever trip_miles + origin + destination deadhead miles is above 0
\* (so for all deadhead miles >= 0); when that total is 0 or below, both
\* percentages are 0.
ThmC18_PercentagesAddUp ==
    (Measured /\ trip_miles > 0) =>
        IF trip_miles + origin_deadhead_miles + destination_deadhead_miles > 0
          THEN PercentagesAddUp
          ELSE /\ deadhead_analysis.paid_miles_percentage = 0
               /\ deadhead_analysis.unpaid_miles_percentage = 0

\* C18 witness: 500 trip miles with 550 + 550 deadhead miles: 31.25 % and
\* 68.75 %, both ties, are reported as 31.2 and 68.8.
WitC18_BothPercentagesAtATie ==
    /\ Measured
    /\ trip_miles = 5000
    /\ origin_deadhead_miles = 5500
    /\ destination_deadhead_miles = 5500
    /\ deadhead_analysis.paid_miles_percentage = 312
    /\ deadhead_analysis.unpaid_miles_percentage = 688

\* The table of the claim, on the reported ratio in hundredths.
ClaimedDeadheadRow(r) ==
    CASE r <= 10 -> <<"Excellent", "Very Low">>
      [] r > 10 /\ r <= 20 -> <<"Good", "Low">>
      [] r > 20 /\ r <= 30 -> <<"Average", "Moderate">>
      [] r > 30 /\ r <= 50 -> <<"Poor", "High">>
      [] r > 50 -> <<"Very Poor", "Severe">>

\* C19: severity and impact are those of the first matching row of the table
\* <= 0.10 Excellent/Very Low, <= 0.20 Good/Low, <= 0.30 Average/Moderate,
\* <= 0.50 Poor/High, else Very Poor/Severe, read on the reported total
\* deadhead ratio (2 decimals), and always come from the same row.
ThmC19_SeverityFromReportedRatio ==
    (Measured /\ trip_miles > 0) =>
        /\ deadhead_analysis.total_deadhead_ratio =
              RoundHalfEven((origin_deadhead_miles + destination_deadhead_miles) * 100,
                            trip_miles)
        /\ <<deadhead_analysis.severity, deadhead_analysis.impact>> =
              ClaimedDeadheadRow(deadhead_analysis.total_deadhead_ratio)

\* C19 witness: 10.4 deadhead miles on 100 trip miles: the ratio 0.104 is
\* reported as 0.10 and classified Excellent/Very Low.
WitC19_JustAboveTenPercent ==
    /\ Measured
    /\ trip_miles = 1000
    /\ origin_deadhead_miles + destination_deadhead_miles = 104
    /\ deadhead_analysis.total_deadhead_ratio = 10
    /\ deadhead_analysis.severity = "Excellent"
    /\ deadhead_analysis.impact = "Very Low"

-----------------------------------------------------------------------------
(* Properties of get_rate_comparison, checked under SpecRate *)

Compared == pc = "done"

\* A rate that is missing, zero or negative.
ClaimedUnusable(rate) == rate = NotANumber \/ (rate.numeric /\ rate.v <= 0)

\* A rate echoed individually: its value when positive, 'Not Available'
\* otherwise.
ClaimedEcho(rate) ==
    IF rate.numeric /\ rate.v > 0 THEN Num(rate.v) ELSE Text("Not Available")

\* C20: whenever the broker rate or the market rate is missing, zero or
\* negative, get_rate_comparison returns the sentinel state, difference 'N/A'
\* and comparison 'Rate comparison not possible', without dividing, and
\* echoes each rate individually: its value when positive, 'Not Available'
\* otherwise.
ThmC20_SentinelState ==
    (Compared /\ (ClaimedUnusable(load_rate) \/ ClaimedUnusable(market_rate)))
        => /\ comparison.difference_percentage = Text("N/A")
           /\ comparison.comparison.text = "Rate comparison not possible"
           /\ comparison.broker_rate_per_mile = ClaimedEcho(load_rate)
           /\ comparison.market_rate_per_mile = ClaimedEcho(market_rate)

\* C20 witness: a broker rate of 2.50 with a market rate of 0, where a
\* division by the market rate has no value: the sentinel state with 2.50
\* echoed and the market rate 'Not Available'.
WitC20_ZeroMarketRate ==
    /\ Compared
    /\ load_rate = Num(25000)
    /\ market_rate = Num(0)
    /\ comparison.broker_rate_per_mile = Num(25000)
    /\ comparison.market_rate_per_mile = Text("Not Available")
    /\ comparison.difference_percentage = Text("N/A")

\* The difference of the claim: (broker - market) / market * 100 rounded to 2
\* decimals, in hundredths of a percent.
ClaimedDifference == RoundHalfEven((load_rate.v - market_rate.v) * 10000, market_rate.v)

PositiveRates ==
    load_rate.numeric /\ load_rate.v > 0 /\ market_rate.numeric /\ market_rate.v > 0

\* C21 as claimed: for positive rates the reported difference is (broker -
\* market) / market * 100 rounded to 2 decimals, and the narrative goes by the
\* sign of that reported difference: 'above market rate' when it is > 0,
\* 'below market rate' when it is < 0, 'At market rate' exactly when it is 0.
CexC21_NarrativeBySignOfReported ==
    (Compared /\ PositiveRates) =>
        /\ comparison.difference_percentage = Num(ClaimedDifference)
        /\ comparison.comparison.text =
              IF ClaimedDifference > 0
                THEN "{abs(round(difference_percentage, 2))}% above market rate"
              ELSE IF ClaimedDifference < 0
                THEN "{abs(round(difference_percentage, 2))}% below market rate"
              ELSE "At market rate"

\* C21, what the code does: the reported difference is the rounded one, the
\* narrative goes by the sign of the difference before rounding, that is by
\* the sign of broker - market, and carries the absolute reported difference;
\* 'At market rate' appears only for equal rates.
ThmC21_NarrativeBySignOfUnrounded ==
    (Compared /\ PositiveRates) =>
        /\ comparison.difference_percentage = Num(ClaimedDifference)
        /\ comparison.comparison =
              IF load_rate.v > market_rate.v
                THEN [text |-> "{abs(round(difference_percentage, 2))}% above market rate",
                      value |-> Abs(ClaimedDifference)]
              ELSE IF load_rate.v < market_rate.v
                THEN [text |-> "{abs(round(difference_percentage, 2))}% below market rate",
                      value |-> Abs(ClaimedDifference)]
              ELSE [text |-> "At market rate", value |-> 0]

\* C21 witness: broker 3.0000 against market 2.9999: the difference 0.0033 %
\* is reported as 0.0 and the narrative is '0.0% above market rate'.
WitC21_ZeroPercentAbove ==
    /\ Compared
    /\ load_rate = Num(30000)
    /\ market_rate = Num(29999)
    /\ comparison.difference_percentage = Num(0)
    /\ comparison.comparison =
          [text |-> "{abs(round(difference_percentage, 2))}% above market rate",
           value |-> 0]

-----------------------------------------------------------------------------
(* calculate_driver_pay: claim C22 *)

Paid == pc = "done" /\ load \in PayLoads

\* The total revenue the claim speaks of: the private network rate when it is
\* positive, else the load board rate when it is positive, else none (0).
ClaimedRevenue ==
    IF load.private_rate > 0 THEN load.private_rate
    ELSE IF load.load_board_rate > 0 THEN load.load_board_rate
    ELSE 0

\* The rate per mile the claim speaks of, in ten-thousandths of a dollar: the
\* estimated rate when it is positive, else the revenue over the trip miles
\* when both are positive, else none (0).
ClaimedRatePerMile ==
    IF load.estimatedRatePerMile > 0 THEN load.estimatedRatePerMile
    ELSE IF load.trip_length_miles > 0 /\ ClaimedRevenue > 0
      THEN (ClaimedRevenue * 1000) \div load.trip_length_miles
    ELSE 0

\* C22: the pay is chosen by strict precedence.  When the total revenue is
\* resolvable and positive the amount is 25 % of it (rounded to cents) with
\* method percentage_of_total, whether or not a rate per mile is available;
\* otherwise, when a rate per mile is resolvable and the trip miles are
\* positive, the amount is 25 % of rate times miles with method
\* calculated_from_rate_per_mile; otherwise the amount is the string
\* 'Not Available' with method insufficient_data.
ThmC22_PayPrecedence ==
    Paid =>
      pay_result =
        IF ClaimedRevenue > 0
          THEN [amount |-> Num(RoundHalfEven(ClaimedRevenue, 4)),
                calculation_method |-> "percentage_of_total"]
        ELSE IF ClaimedRatePerMile > 0 /\ load.trip_length_miles > 0
          THEN [amount |-> Num(RoundHalfEven(ClaimedRatePerMile
                                               * load.trip_length_miles, 4000)),
                calculation_method |-> "calculated_from_rate_per_mile"]
        ELSE [amount |-> Text("Not Available"),
              calculation_method |-> "insufficient_data"]

\* A load with a positive revenue, a positive estimated rate and positive trip
\* miles whose two candidate amounts differ has been paid from the revenue.
WitC22_RevenueWinsOverRate ==
    /\ Paid
    /\ load.private_rate > 0
    /\ load.estimatedRatePerMile > 0
    /\ load.trip_length_miles > 0
    /\ pay_result.calculation_method = "percentage_of_total"
    /\ pay_result.amount
         # Num(RoundHalfEven(load.estimatedRatePerMile * load.trip_length_miles, 4000))

-----------------------------------------------------------------------------
(* get_simple_weather_analysis: claim C23 *)

\* The distinct hazard types of the result's hazard lines, sorted.
ClaimedTypes ==
    SelectSeq(SortedTypes,
              LAMBDA t : \E i \in 1..Len(analysis.hazards) : analysis.hazards[i].type = t)

\* The first-day description of a side: "Unknown" without a daily forecast
\* entry (or without a description in it).
ClaimedFirstDay(wd) ==
    IF wd.daily_forecast = << >> THEN "Unknown"
    ELSE IF wd.daily_forecast[1].weather_description = Missing THEN "Unknown"
    ELSE wd.daily_forecast[1].weather_description

\* The three forms of the summary, given the text of the form for hazards
\* without delay hours.
ClaimedSummary(no_delay_text) ==
    LET hours == analysis.estimated_delay.estimated_delay_hours
        origin_weather == ClaimedFirstDay(origin_weather_data)
        destination_weather == ClaimedFirstDay(destination_weather_data)
    IN  IF analysis.hazards # << >> /\ hours > 0
          THEN Sentence("Weather conditions include {hazard_list}. Expect {impact.lower()} delays of approximately {delay_hours} hours. Origin: {origin_weather}, Destination: {destination_weather}",
                        ClaimedTypes, Lower[analysis.estimated_delay.impact_level],
                        hours, origin_weather, destination_weather)
        ELSE IF analysis.hazards # << >>
          THEN Sentence(no_delay_text, ClaimedTypes, "", 0,
                        origin_weather, destination_weather)
        ELSE Sentence("No significant weather hazards. Origin: {origin_weather}, Destination: {destination_weather}",
                      << >>, "", 0, origin_weather, destination_weather)

OutsideFallback ==
    Analyzed /\ origin_weather_data.present /\ destination_weather_data.present

\* C23 as claimed: outside the fallback the summary has one of three forms, and
\* with hazards and zero delay hours it is the first form with the delay clause
\* dropped, 'Weather conditions include {types}. Origin: ..., Destination: ...'.
CexC23_DelayClauseDropped ==
    OutsideFallback =>
      analysis.summary
        = ClaimedSummary("Weather conditions include {hazard_list}. Origin: {origin_weather}, Destination: {destination_weather}")

\* C23, amended: outside the fallback the summary has one of three forms: with
\* hazards and delay hours > 0, 'Weather conditions include {distinct types,
\* sorted, comma-joined}. Expect {impact_level lowercased} delays of
\* approximately {hours} hours. Origin: ..., Destination: ...'; with hazards and
\* delay hours = 0, the sentence 'No significant delays expected.' in place of
\* the delay clause; with no hazards, 'No significant weather hazards.
\* Origin: ..., Destination: ...'.  Each first-day description is "Unknown"
\* when the side has no daily forecast entry.
ThmC23_SummaryForms ==
    OutsideFallback =>
      analysis.summary
        = ClaimedSummary("Weather conditions include {hazard_list}. No significant delays expected. Origin: {origin_weather}, Destination: {destination_weather}")

\* Hazards without delay hours, one side without a daily forecast entry: the
\* summary names the hazard types and has no delay hours.
WitC23_HazardsWithoutDelay ==
    /\ OutsideFallback
    /\ analysis.hazards # << >>
    /\ analysis.estimated_delay.estimated_delay_hours = 0
    /\ origin_weather_data.daily_forecast = << >>
    /\ destination_weather_data.daily_forecast # << >>
    /\ analysis.summary.origin_weather = "Unknown"
    /\ analysis.summary.hazard_list # << >>

-----------------------------------------------------------------------------
(* calculate_load_score called repeatedly: claim C24 *)

\* What a call on these arguments returns when it is the only call made.
ReturnedAlone(arguments) ==
    LET fin == FinalScore(QualityScore(arguments.rate_comparison,
                                       arguments.weather_risk_score,
                                       arguments.deadhead_ratio, arguments.driver_pay,
                                       arguments.weather_delay_hours))
    IN  [score |-> fin, category |-> Category(fin),
         key_factors |-> TopThree(AllFactors(arguments.rate_comparison,
                                             arguments.weather_risk_score,
                                             arguments.deadhead_ratio,
                                             arguments.driver_pay,
                                             arguments.weather_delay_hours))]

\* C24: calculate_load_score is a pure function.  Any two calls of a series on
\* identical arguments, in any order and with any other calls in between,
\* return identical score, category and key_factors, and no call changes what
\* another observes: every call returns what it returns when made alone.
ThmC24_LoadScoreIsPure ==
    /\ \A i, j \in 1..Len(calls) :
         calls[i].arguments = calls[j].arguments
           => calls[i].returned = calls[j].returned
    /\ \A i \in 1..Len(calls) : calls[i].returned = ReturnedAlone(calls[i].arguments)

\* Three calls: the first and the third on the same arguments and with key
\* factors, the second on other arguments with another result.
WitC24_SameArgumentsAroundAnotherCall ==
    /\ Len(calls) = 3
    /\ calls[1].arguments = calls[3].arguments
    /\ calls[2].arguments # calls[1].arguments
    /\ calls[2].returned # calls[1].returned
    /\ calls[1].returned.key_factors # << >>
    /\ calls[3].returned = calls[1].returned

-----------------------------------------------------------------------------
(* calculate_load_score: claims C27, C28 *)

\* C27: for risk_score >= 0, delay hours >= 0 and deadhead ratio >= 0 the score
\* never exceeds 90 (base 50, at most 25 for the rate, at most 15 for the pay):
\* quality_score stays below the upper clamp at 100, which never binds, and the
\* scores 91..100 are not returned.
ThmC27_ScoreAtMostNinety ==
    (Scored /\ NonNegativeInputs) =>
      /\ load_score.score <= 90
      /\ QualityScore(rate_comparison, weather_risk_score, deadhead_ratio,
                      driver_pay, weather_delay_hours) <= 90 * ScoreScale

\* The best load: 1000 % above market, pay above 500, no risk, no delay, no
\* deadhead, scored 90.
WitC27_BestLoadScoresNinety ==
    /\ Scored
    /\ NonNegativeInputs
    /\ rate_comparison = Num(100000)
    /\ driver_pay = Num(10000000)
    /\ weather_risk_score = 0 /\ weather_delay_hours = 0 /\ deadhead_ratio = 0
    /\ load_score.score = 90

\* The score of the state's arguments with some of them replaced.
ScoreWith(rc, risk, ratio, pay, delay) ==
    FinalScore(QualityScore(rc, risk, ratio, pay, delay))

NumericValues(values) == {x \in values : x.numeric}

\* C28: the score is monotone in each argument with the others held fixed, over
\* non-negative risk, delay and ratio: it never decreases when the difference
\* or the driver pay increases, and never increases when the risk score, the
\* delay hours or the deadhead ratio increases.
ThmC28_ScoreMonotone ==
    (Scored /\ NonNegativeInputs) =>
      /\ \A rc \in NumericValues(RateValues) :
           (rate_comparison.numeric /\ rc.v >= rate_comparison.v)
             => ScoreWith(rc, weather_risk_score, deadhead_ratio, driver_pay,
                          weather_delay_hours) >= load_score.score
      /\ \A pay \in NumericValues(PayValues) :
           (driver_pay.numeric /\ pay.v >= driver_pay.v)
             => ScoreWith(rate_comparison, weather_risk_score, deadhead_ratio, pay,
                          weather_delay_hours) >= load_score.score
      /\ \A risk \in RiskValues :
           risk >= weather_risk_score
             => ScoreWith(rate_comparison, risk, deadhead_ratio, driver_pay,
                          weather_delay_hours) <= load_score.score
      /\ \A delay \in DelayValues :
           delay >= weather_delay_hours
             => ScoreWith(rate_comparison, weather_risk_score, deadhead_ratio,
                          driver_pay, delay) <= load_score.score
      /\ \A ratio \in DeadheadValues :
           ratio >= deadhead_ratio
             => ScoreWith(rate_comparison, weather_risk_score, ratio, driver_pay,
                          weather_delay_hours) <= load_score.score

\* A scored load that a higher difference and a higher pay score strictly
\* higher, and a higher risk, delay and deadhead ratio strictly lower.
WitC28_EveryArgumentMatters ==
    /\ Scored
    /\ NonNegativeInputs
    /\ rate_comparison.numeric /\ driver_pay.numeric
    /\ \E rc \in NumericValues(RateValues) :
         /\ rc.v > rate_comparison.v
         /\ ScoreWith(rc, weather_risk_score, deadhead_ratio, driver_pay,
                      weather_delay_hours) > load_score.score
    /\ \E pay \in NumericValues(PayValues) :
         /\ pay.v > driver_pay.v
         /\ ScoreWith(rate_comparison, weather_risk_score, deadhead_ratio, pay,
                      weather_delay_hours) > load_score.score
    /\ \E risk \in RiskValues :
         /\ risk > weather_risk_score
         /\ ScoreWith(rate_comparison, risk, deadhead_ratio, driver_pay,
                      weather_delay_hours) < load_score.score
    /\ \E delay \in DelayValues :
         /\ delay > weather_delay_hours
         /\ ScoreWith(rate_comparison, weather_risk_score, deadhead_ratio,
                      driver_pay, delay) < load_score.score
    /\ \E ratio \in DeadheadValues :
         /\ ratio > deadhead_ratio
         /\ ScoreWith(rate_comparison, weather_risk_score, ratio, driver_pay,
                      weather_delay_hours) < load_score.score

-----------------------------------------------------------------------------
(* estimate_weather_delay and calculate_load_score: claim C29 *)

\* The key factors calculate_load_score appends for the delay hours that
\* estimate_weather_delay reports.
ReportedDelayFactors == DelayFactors(delay_info.estimated_delay_hours)

\* C29 as claimed: impact_level agrees with the reported (1-decimal)
\* estimated_delay_hours under the same thresholds: reported hours >= 2 imply
\* Significant or Severe, >= 4 imply Severe, >= 0.5 imply not Minimal; so the
\* scorer's Significant/Severe delay risk factor never appears for a delay
\* whose impact_level is Moderate or Minimal.
CexC29_ImpactAgreesWithReportedHours ==
    Estimated =>
      /\ delay_info.estimated_delay_hours >= 20
           => delay_info.impact_level \in {"Significant", "Severe"}
      /\ delay_info.estimated_delay_hours >= 40
           => delay_info.impact_level = "Severe"
      /\ delay_info.estimated_delay_hours >= 5
           => delay_info.impact_level # "Minimal"
      /\ delay_info.impact_level \in {"Moderate", "Minimal"}
           => ReportedDelayFactors = << >>

\* C29, what holds: the level is taken from the unrounded total, so it agrees
\* with the reported hours except where rounding lifts the total onto a
\* threshold: reported hours above 2.0 imply Significant or Severe, above 4.0
\* imply Severe, above 0.5 imply not Minimal.
ThmC29_ImpactAgreesAwayFromThresholds ==
    Estimated =>
      /\ delay_info.estimated_delay_hours > 20
           => delay_info.impact_level \in {"Significant", "Severe"}
      /\ delay_info.estimated_delay_hours > 40
           => delay_info.impact_level = "Severe"
      /\ delay_info.estimated_delay_hours > 5
           => delay_info.impact_level # "Minimal"

\* Snow of high severity on a 120-mile trip: 2.0 hours are reported with
\* impact_level Moderate, and the scorer names a significant delay risk.
WitC29_TwoHoursReportedModerate ==
    /\ Estimated
    /\ trip_miles = 1200
    /\ delay_info.estimated_delay_hours = 20
    /\ delay_info.impact_level = "Moderate"
    /\ ReportedDelayFactors
         = << [phrase |-> "Significant delay risk (hrs)", value |-> 20] >>

-----------------------------------------------------------------------------
(* process_loads_and_compare_rates: claims C25, C26, C30 *)

\* A match with a non-empty origin and a non-empty destination place.
Complete(item) == item.match.origin.present /\ item.match.destination_place.present

\* The matches read so far, and the complete ones among them, in input order.
ReadSoFar == SubSeq(matches, 1, match_index)
CompleteSoFar == SelectSeq(ReadSoFar, Complete)

\* The record of a match computed from its own fields and from the providers'
\* answers about it, nothing else.
RecordAlone(item) ==
    LET m == item.match
        trip == m.load.trip_length_miles
        pay == CalculateDriverPayResult(m.load)
        weather_analysis ==
            GetSimpleWeatherAnalysisResult(
                IF m.origin.coordinates THEN item.origin_weather ELSE NoData,
                IF m.destination_place.coordinates THEN item.destination_weather
                                                   ELSE NoData,
                trip)
        deadhead == CalculateDeadheadAnalysisResult(m.originDeadheadMiles,
                                                    m.destinationDeadheadMiles, trip)
        rate_result == GetRateComparisonResult(GetBrokerRatePerMile(m.load),
                                               MarketRatePerMile(item.rateview,
                                                                 NotANumber))
        difference == IF rate_result.difference_percentage.numeric
                        THEN rate_result.difference_percentage ELSE Num(0)
        amount == IF pay.amount.numeric THEN pay.amount ELSE Num(0)
        ratio == IF deadhead.status = "success" THEN deadhead.total_deadhead_ratio
                 ELSE 0
        delay_hours == weather_analysis.estimated_delay.estimated_delay_hours
        fin == ScoreWith(difference, weather_analysis.risk_score, ratio, amount,
                         delay_hours)
    IN  ProcessedMatch(m, MapEquipmentCodeToRateview(m.equipmentType), trip,
                       rate_result, pay, weather_analysis, deadhead,
                       [score |-> fin, category |-> Category(fin),
                        key_factors |-> TopThree(AllFactors(difference,
                                            weather_analysis.risk_score, ratio,
                                            amount, delay_hours))],
                       MarketDataOf(item.rateview))

LastRecord == processedMatches[Len(processedMatches)]

RatePhrases == {"% above market rate", "% below market rate"}
PayPhrases == {"Excellent pay", "Good pay"}

NoFactorOf(phrases) ==
    \A i \in 1..Len(factors) : factors[i].phrase \notin phrases

\* C26: the scorer is never given a sentinel.  A comparison of 'N/A' is scored
\* as difference 0, with no rate adjustment and no rate factor; a driver pay of
\* 'Not Available' is scored as 0, with no bonus; an invalid deadhead result
\* (trip miles <= 0) is scored as ratio 0 with weather delay 0; the record
\* carries a score in 0..100 while its deadheadAnalysis has status 'invalid'.
ThmC26_NoSentinelIntoScorer ==
    processedMatches # << >> =>
      /\ rate_comparison.numeric /\ driver_pay.numeric
      /\ LastRecord.loadQuality = load_score
      /\ LastRecord.loadQuality.score \in 0..100
      /\ LastRecord.rateComparison.difference_percentage = Text("N/A")
           => /\ rate_comparison = Num(0)
              /\ NoFactorOf(RatePhrases)
              /\ load_score.score = ScoreWith(NotANumber, weather_risk_score,
                                              deadhead_ratio, driver_pay,
                                              weather_delay_hours)
      /\ LastRecord.driver_pay.amount = Text("Not Available")
           => /\ driver_pay = Num(0)
              /\ NoFactorOf(PayPhrases)
              /\ load_score.score = ScoreWith(rate_comparison, weather_risk_score,
                                              deadhead_ratio, NotANumber,
                                              weather_delay_hours)
      /\ trip_miles <= 0
           => /\ LastRecord.deadheadAnalysis.status = "invalid"
              /\ deadhead_ratio = 0
              /\ weather_delay_hours = 0

\* A match with negative trip miles and no rate, hazards at both ends, has been
\* scored: comparison 'N/A', pay 'Not Available', deadhead invalid, and a score.
WitC26_AllSentinelsScored ==
    /\ processedMatches # << >>
    /\ trip_miles < 0
    /\ LastRecord.rateComparison.difference_percentage = Text("N/A")
    /\ LastRecord.driver_pay.amount = Text("Not Available")
    /\ LastRecord.deadheadAnalysis.status = "invalid"
    /\ LastRecord.weatherInfo.hazards # << >>
    /\ LastRecord.loadQuality.score \in 1..100

\* The positions of the input read so far that hold a complete match.
CompletePositions == {i \in 1..match_index : Complete(matches[i])}

CallsFor(i, provider) ==
    Cardinality({c \in 1..Len(provider_calls) :
                    provider_calls[c].match = i /\ provider_calls[c].provider = provider})

\* C30: processedMatches is exactly the subsequence of the input matches with a
\* non-empty origin and a non-empty destination place, in input order, one
\* record per such match echoing its matchId.  A match missing either gets no
\* record and no weather or rate provider call, and leaves the records of the
\* other matches as they are without it.
ThmC30_CompleteMatchesInOrder ==
    /\ Len(processedMatches) = Cardinality(CompletePositions)
    /\ [k \in 1..Len(processedMatches) |-> processedMatches[k].matchId]
         = [k \in 1..Len(CompleteSoFar) |-> CompleteSoFar[k].match.matchId]
    /\ \A c \in 1..Len(provider_calls) : provider_calls[c].match \in CompletePositions
    /\ \A i \in CompletePositions : CallsFor(i, "call_rateview_api") = 1
    /\ \A c, d \in 1..Len(provider_calls) :
         c < d => provider_calls[c].match <= provider_calls[d].match
    /\ processedMatches = [k \in 1..Len(CompleteSoFar) |-> RecordAlone(CompleteSoFar[k])]

\* Three matches, the middle one without origin though its destination has
\* coordinates: two records, of the first and the third, and no call for the
\* second.
WitC30_MiddleMatchSkipped ==
    /\ pc = "done"
    /\ Len(matches) = 3
    /\ Complete(matches[1]) /\ Complete(matches[3])
    /\ ~matches[2].match.origin.present
    /\ matches[2].match.destination_place.coordinates
    /\ Len(processedMatches) = 2
    /\ processedMatches[1].matchId = matches[1].match.matchId
    /\ processedMatches[2].matchId = matches[3].match.matchId
    /\ \A c \in 1..Len(provider_calls) : provider_calls[c].match # 2
    /\ CallsFor(1, "get_weather_data") = 2

=============================================================================
